--------------------------- MODULE Screens_proofs ---------------------------
(* What a person sees and acts on, for every document, image, schema, menu    *)
(* tree and directory tree: no draft is called unmodified that differs from   *)
(* what is stored, and what a key picks, runs, changes or takes back is what  *)
(* was shown.  Each part has its invariant; the composition keeps that of the *)
(* part that is there.                                                        *)
EXTENDS MCScreens, Bounds_proofs, FiniteSetTheorems, TLAPS

-----------------------------------------------------------------------------
(* The document editor.                                                     *)

\* The inserting of a character, byte by byte.
Inserted(d, char, paste, n, f) ==
  f = [k \in 0..n |-> IF k = 0 THEN d ELSE InsertByte(f[k - 1], char[k], paste)]

\* The bytes of a character go in one after another.
LEMMA InsertedExists ==
  ASSUME NEW d, NEW char, NEW paste
  PROVE  \A n \in Nat : \E f : Inserted(d, char, paste, n, f)
<1> DEFINE Z == {n \in Nat : \E f : Inserted(d, char, paste, n, f)}
<1>1. 0 \in Z
  <2>1. Inserted(d, char, paste, 0, [k \in 0..0 |-> d])
    BY DEF Inserted
  <2> QED BY <2>1
<1>2. ASSUME NEW n \in Z PROVE n + 1 \in Z
  <2>1. PICK f : Inserted(d, char, paste, n, f)
    BY <1>2
  <2> DEFINE g == [k \in 0..(n + 1) |-> IF k <= n THEN f[k] ELSE InsertByte(f[n], char[n + 1], paste)]
  <2>2. ASSUME NEW k \in 0..(n + 1)
        PROVE  g[k] = IF k = 0 THEN d ELSE InsertByte(g[k - 1], char[k], paste)
    <3>1. CASE k <= n
      <4>1. k \in 0..n /\ g[k] = f[k] /\ (k # 0 => k - 1 \in 0..(n + 1) /\ k - 1 <= n /\ g[k - 1] = f[k - 1])
        BY <3>1, <1>2
      <4>2. f[k] = IF k = 0 THEN d ELSE InsertByte(f[k - 1], char[k], paste)
        BY <4>1, <2>1 DEF Inserted
      <4> QED BY <4>1, <4>2
    <3>2. CASE ~(k <= n)
      <4>1. k = n + 1 /\ k # 0 /\ k - 1 = n /\ n \in 0..(n + 1) /\ n <= n
        BY <3>2, <1>2
      <4>2. g[n] = f[n] /\ g[k] = InsertByte(f[n], char[n + 1], paste)
        BY <4>1
      <4> QED BY <4>1, <4>2
    <3> QED BY <3>1, <3>2
  <2>3. g = [k \in 0..(n + 1) |-> g[k]]
    OBVIOUS
  <2> HIDE DEF g
  <2>4. g = [k \in 0..(n + 1) |-> IF k = 0 THEN d ELSE InsertByte(g[k - 1], char[k], paste)]
    BY <2>2, <2>3
  <2>5. Inserted(d, char, paste, n + 1, g)
    BY <2>4 DEF Inserted
  <2> QED BY <2>5, <1>2
<1>3. Z = Nat
  <2>1. Z \in SUBSET Nat
    OBVIOUS
  <2> HIDE DEF Z
  <2> QED BY <1>1, <1>2, <2>1, Counted
<1> QED BY <1>3

LEMMA InsertCharIs ==
  ASSUME NEW d, NEW char, NEW paste, Len(char) \in Nat
  PROVE  \E f : Inserted(d, char, paste, Len(char), f) /\ InsertChar(d, char, paste) = f[Len(char)]
<1> DEFINE after == CHOOSE f : Inserted(d, char, paste, Len(char), f)
<1>1. Inserted(d, char, paste, Len(char), after)
  <2>1. \E f : Inserted(d, char, paste, Len(char), f)
    BY InsertedExists
  <2> QED BY <2>1
<1>2. InsertChar(d, char, paste) = after[Len(char)]
  BY DEF InsertChar, Inserted
<1> QED BY <1>1, <1>2

DocFields == {"open", "readOnly", "text", "pos", "dirty", "ask", "undo", "valid", "lf"}
UndoFields == {"text", "pos", "dirty"}
\* Of the draft and of what an undo would make of it: the one that is called unmodified
\* is the text that is stored.
Honest(d, stored) ==
  /\ DOMAIN d = DocFields /\ DOMAIN d.undo = UndoFields
  /\ d.open /\ ~d.dirty => d.text = stored
  /\ d.open /\ d.valid /\ ~d.undo.dirty => d.undo.text = stored

\* A draft just opened, or closed again, is what is stored.
LEMMA OpenedHonest == \A text, r : Honest(Opened(text, r), text) /\ Honest(DocClosed(Opened(text, r)), text)
BY DEF Honest, Opened, DocClosed, NoUndo, DocFields, UndoFields

LEMMA ClosedHonest == \A d, stored : Honest(DocClosed(d), stored)
BY DEF Honest, Opened, DocClosed, NoUndo, DocFields, UndoFields

LEMMA SnapshotHonest ==
  ASSUME NEW d, NEW stored, Honest(d, stored)
  PROVE  Honest(Snapshot(d), stored) /\ Snapshot(d).open = d.open /\ Snapshot(d).pos = d.pos
BY DEF Honest, Snapshot, DocFields, UndoFields

LEMMA InsertByteHonest ==
  ASSUME NEW d, NEW stored, Honest(d, stored), NEW c, NEW paste
  PROVE  Honest(InsertByte(d, c, paste), stored)
<1>1. ASSUME NEW s, Honest(s, stored), NEW t
      PROVE  Honest([s EXCEPT !.text = t, !.pos = @ + 1, !.dirty = TRUE], stored)
  BY <1>1 DEF Honest, DocFields, UndoFields
<1> QED BY <1>1, SnapshotHonest DEF InsertByte

LEMMA InsertCharHonest ==
  ASSUME NEW d, NEW stored, Honest(d, stored), NEW char, NEW paste, Len(char) \in Nat
  PROVE  Honest(InsertChar(d, char, paste), stored)
<1>1. PICK f : Inserted(d, char, paste, Len(char), f) /\ InsertChar(d, char, paste) = f[Len(char)]
  BY InsertCharIs
<1> DEFINE Z == {k \in Nat : k <= Len(char) => Honest(f[k], stored)}
<1>2. 0 \in Z
  <2>1. f[0] = d
    BY <1>1 DEF Inserted
  <2> QED BY <2>1
<1>3. ASSUME NEW k \in Z PROVE k + 1 \in Z
  <2>1. SUFFICES ASSUME k + 1 <= Len(char) PROVE Honest(f[k + 1], stored)
    BY <1>3
  <2>2. Honest(f[k], stored)
    BY <1>3, <2>1
  <2>3. f[k + 1] = InsertByte(f[k], char[k + 1], paste)
    <3>1. k + 1 \in 0..Len(char) /\ k + 1 # 0 /\ (k + 1) - 1 = k
      BY <1>3, <2>1
    <3> QED BY <1>1, <3>1 DEF Inserted
  <2> QED BY <2>2, <2>3, InsertByteHonest
<1>4. Z = Nat
  <2>1. Z \in SUBSET Nat
    OBVIOUS
  <2> HIDE DEF Z
  <2> QED BY <1>2, <1>3, <2>1, Counted
<1>5. Honest(f[Len(char)], stored)
  BY <1>4
<1> QED BY <1>1, <1>5

DocGood == Honest(doc, kept) /\ pasting \in BOOLEAN

\* Every operation of the editor knows whether the draft is the stored text.
LEMMA DocKeeps == ASSUME DocGood, DocNext PROVE DocGood'
<1>0. Honest(doc, kept) /\ DOMAIN doc = DocFields /\ DOMAIN doc.undo = UndoFields
  BY DEF DocGood, Honest
<1>a. ASSUME NEW d, Honest(d, kept), NEW before, Now(d, before) PROVE DocGood'
  BY <1>a DEF DocGood, Now
<1>1. ASSUME NEW r, DocOpen(r) PROVE DocGood'
  BY <1>1, <1>a, OpenedHonest DEF DocOpen
<1>2. ASSUME NEW c \in Chars, DocType(c) PROVE DocGood'
  <2>1. Len(c) \in Nat
    BY EditorAssumption
  <2>2. Honest(InsertChar(doc, c, FALSE), kept)
    BY <1>0, <2>1, InsertCharHonest
  <2> QED BY <1>2, <1>a, <2>2 DEF DocType, Changed
<1>3. ASSUME NEW from, NEW to, DocErase(from, to) PROVE DocGood'
  <2>1. ASSUME NEW s, Honest(s, kept), NEW t, NEW p
        PROVE  Honest([s EXCEPT !.text = t, !.pos = p, !.dirty = TRUE], kept)
    BY <2>1 DEF Honest, DocFields, UndoFields
  <2>2. Honest(Without(doc, from, to), kept)
    BY <1>0, <2>1, SnapshotHonest DEF Without
  <2> QED BY <1>3, <1>a, <2>2 DEF DocErase, Changed
<1>4. ASSUME NEW p, DocMove(p) PROVE DocGood'
  <2>1. Honest([doc EXCEPT !.pos = p], kept)
    BY <1>0 DEF Honest, DocFields
  <2> QED BY <1>4, <1>a, <2>1 DEF DocMove
<1>5. CASE DocUndo
  <2>1. Honest(Swap(doc), kept)
    BY <1>0, <1>5 DEF Honest, Swap, DocFields, UndoFields, DocUndo
  <2> QED BY <1>5, <1>a, <2>1 DEF DocUndo
<1>6. ASSUME NEW ok, DocSave(ok) PROVE DocGood'
  <2>1. Honest(Saved(doc), doc.text)
    BY <1>0 DEF Honest, Saved, NoUndo, DocFields, UndoFields
  <2> QED BY <1>6, <1>0, <1>a, <2>1 DEF DocSave, DocGood
<1>7. CASE DocLeave
  <2>1. Honest([doc EXCEPT !.ask = TRUE], kept)
    BY <1>0 DEF Honest, DocFields
  <2> QED BY <1>7, <1>a, <2>1, ClosedHonest DEF DocLeave
<1>8. ASSUME NEW k, NEW ok, DocAnswer(k, ok) PROVE DocGood'
  <2>1. Honest([doc EXCEPT !.ask = FALSE], kept)
    BY <1>0 DEF Honest, DocFields
  <2> QED BY <1>8, <1>0, <1>a, <2>1, ClosedHonest DEF DocAnswer, DocGood
<1>9. CASE DocPaste \/ DocPasteEnd
  BY <1>9, <1>0, SnapshotHonest DEF DocPaste, DocPasteEnd, DocGood
<1>10. ASSUME NEW c \in Chars \cup {<<Newline>>, <<"\r">>}, DocPasted(c) PROVE DocGood'
  <2>1. \A b : Honest([doc EXCEPT !.lf = b], kept)
    BY <1>0 DEF Honest, DocFields
  <2>2. Len(c) \in Nat /\ Len(<<Newline>>) \in Nat
    BY EditorAssumption
  <2> DEFINE u == IF c = <<"\r">> THEN <<Newline>> ELSE c
             w == InsertChar([doc EXCEPT !.lf = c = <<"\r">>], u, TRUE)
  <2>3. Honest(w, kept)
    <3>1. Len(u) \in Nat
      BY <2>2
    <3> HIDE DEF u
    <3> QED BY <2>1, <3>1, InsertCharHonest
  <2>4. doc' \in {doc, [doc EXCEPT !.lf = FALSE], w} /\ UNCHANGED <<kept, pasting>>
    BY <1>10 DEF DocPasted, Now
  <2> HIDE DEF w
  <2> QED BY <1>0, <2>1, <2>3, <2>4 DEF DocGood
<1> QED BY <1>1, <1>2, <1>3, <1>4, <1>5, <1>6, <1>7, <1>8, <1>9, <1>10 DEF DocNext

\* What an undo is to bring back: the text from before the last edit, a paste being one.
Octets == STRING \cup {Newline, Continuation}
Whole(t) == t \in Seq(Octets) /\ Len(t) <= Capacity /\ (Len(t) > 0 => t[1] # Continuation)
Text(t, p) == Whole(t) /\ p \in Boundaries(t)
Edited(d) ==
  DOMAIN d = DocFields /\ DOMAIN d.undo = UndoFields /\ Text(d.text, d.pos) /\ Text(d.undo.text, d.undo.pos)

\* The two ends of a sequence.
LEMMA Cut ==
  ASSUME NEW Z, NEW t \in Seq(Z), NEW i \in 0..Len(t)
  PROVE  /\ SubSeq(t, 1, i) \in Seq(Z) /\ Len(SubSeq(t, 1, i)) = i
         /\ \A k \in 1..i : SubSeq(t, 1, i)[k] = t[k]
         /\ SubSeq(t, i + 1, Len(t)) \in Seq(Z) /\ Len(SubSeq(t, i + 1, Len(t))) = Len(t) - i
         /\ \A k \in 1..(Len(t) - i) : SubSeq(t, i + 1, Len(t))[k] = t[i + k]
OBVIOUS

Joint(a, b, u) ==
  /\ Len(u) = Len(a) + Len(b)
  /\ \A k \in 1..Len(a) : u[k] = a[k]
  /\ \A k \in 1..Len(b) : u[Len(a) + k] = b[k]
LEMMA Joined ==
  ASSUME NEW Z, NEW a \in Seq(Z), NEW b \in Seq(Z)
  PROVE  a \o b \in Seq(Z) /\ Joint(a, b, a \o b)
BY DEF Joint

LEMMA BoundaryIs ==
  ASSUME NEW t, NEW p, Whole(t)
  PROVE  Text(t, p) <=> p \in 0..Len(t) /\ Len(t) \in Nat /\ (p = Len(t) \/ t[p + 1] # Continuation)
BY DEF Text, Whole, Boundaries

\* A byte at a boundary; it may continue a character only behind another byte.
LEMMA TextInserted ==
  ASSUME NEW t, NEW p, Text(t, p), NEW c \in Octets, Len(t) < Capacity, p = 0 => c # Continuation
  PROVE  Text(InsertAt(t, p + 1, c), p + 1) /\ Len(InsertAt(t, p + 1, c)) = Len(t) + 1
<1>1. /\ t \in Seq(Octets) /\ p \in 0..Len(t) /\ Len(t) \in Nat /\ (p + 1) - 1 = p /\ Capacity \in Nat
      /\ p = Len(t) \/ t[p + 1] # Continuation
      /\ Len(t) > 0 => t[1] # Continuation
  BY BoundaryIs, EditorAssumption DEF Text, Whole
<1> DEFINE a == SubSeq(t, 1, p)
           b == SubSeq(t, p + 1, Len(t))
<1>2. /\ a \in Seq(Octets) /\ Len(a) = p /\ b \in Seq(Octets) /\ Len(b) = Len(t) - p
      /\ p > 0 => a[1] = t[1]
      /\ p < Len(t) => b[1] = t[p + 1]
  <2>1. /\ \A k \in 1..p : a[k] = t[k]
        /\ \A k \in 1..(Len(t) - p) : b[k] = t[p + k]
        /\ a \in Seq(Octets) /\ Len(a) = p /\ b \in Seq(Octets) /\ Len(b) = Len(t) - p
    BY <1>1, Cut
  <2> QED BY <1>1, <2>1, SMTT(30)
<1>3. InsertAt(t, p + 1, c) = a \o <<c>> \o b
  BY <1>1 DEF InsertAt
<1>4. <<c>> \in Seq(Octets) /\ Len(<<c>>) = 1 /\ <<c>>[1] = c
  OBVIOUS
<1> HIDE DEF a, b
<1> DEFINE x == a \o <<c>>
<1>5. x \in Seq(Octets) /\ Len(x) = p + 1 /\ (p > 0 => x[1] = t[1]) /\ (p = 0 => x[1] = c)
  <2>1. x \in Seq(Octets) /\ Joint(a, <<c>>, x)
    BY <1>2, <1>4, Joined
  <2> HIDE DEF x
  <2>2. (p > 0 => 1 \in 1..Len(a)) /\ 1 \in 1..Len(<<c>>) /\ (p = 0 => Len(a) + 1 = 1)
    BY <1>1, <1>2, <1>4
  <2> QED BY <1>1, <1>2, <1>4, <2>1, <2>2 DEF Joint
<1> HIDE DEF x
<1> DEFINE y == x \o b
<1>6. /\ y \in Seq(Octets) /\ Len(y) = Len(x) + Len(b) /\ y[1] = x[1]
      /\ p < Len(t) => y[p + 2] = b[1]
  <2>1. y \in Seq(Octets) /\ Joint(x, b, y)
    BY <1>2, <1>5, Joined
  <2> HIDE DEF y
  <2>2. 1 \in 1..Len(x) /\ (p < Len(t) => 1 \in 1..Len(b) /\ Len(x) + 1 = p + 2)
    BY <1>1, <1>2, <1>5
  <2> QED BY <2>1, <2>2 DEF Joint
<1>7. InsertAt(t, p + 1, c) = y
  BY <1>3 DEF x
<1> HIDE DEF y
<1>8. Len(y) = Len(t) + 1 /\ p + 1 \in 0..Len(y)
  BY <1>1, <1>2, <1>5, <1>6
<1>9. y[1] # Continuation
  BY <1>1, <1>5, <1>6
<1>10. p + 1 = Len(y) \/ y[(p + 1) + 1] # Continuation
  <2>1. (p + 1) + 1 = p + 2 /\ (p + 1 # Len(y) => p < Len(t))
    BY <1>1, <1>8
  <2> QED BY <1>1, <1>2, <1>6, <2>1
<1>11. Whole(y)
  BY <1>1, <1>6, <1>8, <1>9 DEF Whole
<1>12. Text(y, p + 1)
  BY <1>8, <1>10, <1>11, BoundaryIs
<1> QED BY <1>7, <1>8, <1>12

\* A text without what is between two boundaries is a text.
LEMMA TextCut ==
  ASSUME NEW t, NEW from, NEW to, Text(t, from), Text(t, to), from < to
  PROVE  LET u == SubSeq(t, 1, from) \o SubSeq(t, to + 1, Len(t)) IN Text(u, from) /\ Len(u) < Len(t)
<1>1. /\ t \in Seq(Octets) /\ Len(t) \in Nat /\ from \in 0..Len(t) /\ to \in 0..Len(t) /\ Capacity \in Nat
      /\ Len(t) <= Capacity /\ (to = Len(t) \/ t[to + 1] # Continuation)
      /\ Len(t) > 0 => t[1] # Continuation
  BY BoundaryIs, EditorAssumption DEF Text, Whole
<1> DEFINE a == SubSeq(t, 1, from)
           b == SubSeq(t, to + 1, Len(t))
<1>2. /\ a \in Seq(Octets) /\ Len(a) = from /\ b \in Seq(Octets) /\ Len(b) = Len(t) - to
      /\ from > 0 => a[1] = t[1]
      /\ to < Len(t) => b[1] = t[to + 1]
  <2>1. /\ \A k \in 1..from : a[k] = t[k]
        /\ a \in Seq(Octets) /\ Len(a) = from
    BY <1>1, Cut
  <2>2. /\ \A k \in 1..(Len(t) - to) : b[k] = t[to + k]
        /\ b \in Seq(Octets) /\ Len(b) = Len(t) - to
    BY <1>1, Cut
  <2> QED BY <1>1, <2>1, <2>2
<1> HIDE DEF a, b
<1> DEFINE u == a \o b
<1>u. u \in Seq(Octets) /\ Joint(a, b, u)
  BY <1>2, Joined
<1> HIDE DEF u
<1>3. /\ u \in Seq(Octets) /\ Len(u) = Len(a) + Len(b)
      /\ \A k \in 1..Len(a) : u[k] = a[k]
      /\ \A k \in 1..Len(b) : u[Len(a) + k] = b[k]
  BY <1>u DEF Joint
<1>4. Len(u) < Len(t) /\ from \in 0..Len(u) /\ (from = Len(u) <=> to = Len(t)) /\ Len(b) \in Nat
      /\ (from # Len(u) => Len(b) > 0 /\ to < Len(t))
  <2>1. PICK n \in Nat : n = Len(t)
    BY <1>1
  <2>2. from \in 0..n /\ to \in 0..n /\ Len(u) = from + (n - to) /\ Len(b) = n - to
    BY <1>1, <1>2, <1>3, <2>1
  <2> QED BY <2>1, <2>2
<1>5. from = Len(u) \/ u[from + 1] # Continuation
  <2>1. from # Len(u) => 1 \in 1..Len(b) /\ to < Len(t)
    BY <1>4
  <2> QED BY <1>1, <1>2, <1>3, <2>1, SMTT(30)
<1>6. Len(u) > 0 => u[1] # Continuation
  <2>1. CASE from > 0
    <3>1. 1 \in 1..Len(a) /\ Len(t) > 0
      BY <1>1, <1>2, <2>1
    <3> QED BY <1>1, <1>2, <1>3, <2>1, <3>1
  <2>2. CASE from = 0
    <3>1. Len(u) > 0 => from # Len(u) /\ from + 1 = 1
      BY <1>4, <2>2
    <3> QED BY <1>5, <3>1
  <2> QED BY <1>1, <2>1, <2>2
<1>7. Whole(u)
  BY <1>1, <1>3, <1>4, <1>6 DEF Whole
<1>8. Text(u, from)
  BY <1>4, <1>5, <1>7, BoundaryIs
<1> QED BY <1>4, <1>8 DEF u, a, b

LEMMA InsertByteText ==
  ASSUME NEW d, Edited(d), ~d.readOnly, NEW c \in Octets, NEW paste \in BOOLEAN,
         d.pos = 0 => c # Continuation \/ Len(d.text) >= Capacity
  PROVE  LET e == InsertByte(d, c, paste) IN
         /\ Edited(e) /\ ~e.readOnly
         /\ Len(d.text) >= Capacity => e = d
         /\ Len(d.text) < Capacity => /\ Len(e.text) = Len(d.text) + 1 /\ e.pos # 0
                                      /\ IF paste \/ c = Continuation THEN e.undo = d.undo /\ e.valid = d.valid
                                         ELSE e.valid /\ e.undo.text = d.text
<1> DEFINE t == InsertAt(d.text, d.pos + 1, c)
<1>2. Len(d.text) \in Nat /\ Capacity \in Nat /\ d.pos \in 0..Len(d.text)
  BY EditorAssumption, BoundaryIs DEF Edited, Text, Whole
<1>1. Len(d.text) < Capacity => Text(t, d.pos + 1) /\ Len(t) = Len(d.text) + 1
  <2>1. SUFFICES ASSUME Len(d.text) < Capacity PROVE Text(t, d.pos + 1) /\ Len(t) = Len(d.text) + 1
    OBVIOUS
  <2>2. d.pos = 0 => c # Continuation
    BY <1>2, <2>1
  <2>3. Text(d.text, d.pos)
    BY DEF Edited
  <2> QED BY <2>1, <2>2, <2>3, TextInserted
<1> HIDE DEF t
<1>3. CASE Len(d.text) >= Capacity
  <2>1. InsertByte(d, c, paste) = d
    BY <1>3 DEF InsertByte
  <2> QED BY <1>2, <1>3, <2>1
<1>4. CASE ~(Len(d.text) >= Capacity) /\ (paste \/ c = Continuation)
  <2>1. InsertByte(d, c, paste) = [d EXCEPT !.text = t, !.pos = @ + 1, !.dirty = TRUE]
    BY <1>4 DEF InsertByte, t
  <2> QED BY <1>1, <1>2, <1>4, <2>1 DEF Edited, DocFields
<1>5. CASE ~(Len(d.text) >= Capacity) /\ ~(paste \/ c = Continuation)
  <2>1. InsertByte(d, c, paste) = [Snapshot(d) EXCEPT !.text = t, !.pos = @ + 1, !.dirty = TRUE]
    BY <1>5 DEF InsertByte, t
  <2> QED BY <1>1, <1>2, <1>5, <2>1 DEF Edited, DocFields, UndoFields, Snapshot
<1> QED BY <1>3, <1>4, <1>5

\* A whole character: of a paste it leaves the undo alone, typed it is one edit.
Entered(d, e, paste) ==
  /\ Edited(e) /\ ~e.readOnly
  /\ paste => e.undo = d.undo /\ e.valid = d.valid
  /\ ~paste => e = d \/ (e.valid /\ e.undo.text = d.text /\ e.text # d.text)
Char(c) == c \in Seq(Octets) /\ Len(c) > 0 /\ \A k \in 1..Len(c) : c[k] = Continuation <=> k > 1

\* Byte by byte, a character leaves whole characters.
LEMMA InsertCharText ==
  ASSUME NEW d, Edited(d), ~d.readOnly, NEW char, Char(char), NEW paste \in BOOLEAN
  PROVE  Entered(d, InsertChar(d, char, paste), paste)
<1>0. Len(char) \in Nat /\ Len(char) > 0 /\ \A k \in 1..Len(char) : char[k] \in Octets
  BY DEF Char
<1>1. PICK f : Inserted(d, char, paste, Len(char), f) /\ InsertChar(d, char, paste) = f[Len(char)]
  BY <1>0, InsertCharIs
<1>2. Len(d.text) \in Nat /\ Capacity \in Nat
  BY EditorAssumption DEF Edited, Text, Whole
\* Either the draft is full before the first byte, and nothing enters, or the first
\* byte has entered.
<1> DEFINE Room == Len(d.text) < Capacity
           First(e) == /\ Len(e.text) > Len(d.text) /\ e.pos # 0
                       /\ IF paste THEN e.undo = d.undo /\ e.valid = d.valid
                          ELSE e.valid /\ e.undo.text = d.text
           Good(k) == Edited(f[k]) /\ ~f[k].readOnly /\ (IF k = 0 \/ ~Room THEN f[k] = d ELSE First(f[k]))
           Z == {k \in Nat : k <= Len(char) => Good(k)}
<1>3. 0 \in Z
  <2>1. f[0] = d
    BY <1>1 DEF Inserted
  <2> QED BY <2>1
<1>4. ASSUME NEW k \in Z PROVE k + 1 \in Z
  <2>1. SUFFICES ASSUME k + 1 <= Len(char) PROVE Good(k + 1)
    BY <1>4
  <2> DEFINE g == f[k]
             c == char[k + 1]
             e == InsertByte(g, c, paste)
  <2>2. Good(k) /\ k \in Nat
    BY <1>4, <1>0, <2>1
  <2>3. f[k + 1] = e
    <3>1. k + 1 \in 0..Len(char) /\ k + 1 # 0 /\ (k + 1) - 1 = k
      BY <1>4, <2>1
    <3> QED BY <1>1, <3>1 DEF Inserted
  <2>4. c \in Octets /\ (c = Continuation <=> k # 0)
    <3>1. k + 1 \in 1..Len(char) /\ (k + 1 > 1 <=> k # 0)
      BY <1>0, <2>1, <2>2
    <3> QED BY <1>0, <3>1 DEF Char
  <2>5. Edited(g) /\ ~g.readOnly
    BY <2>2
  <2>6. g.pos = 0 => c # Continuation \/ Len(g.text) >= Capacity
    BY <1>2, <2>2, <2>4
  <2> HIDE DEF g, c
  <2>7. /\ Edited(e) /\ ~e.readOnly
        /\ Len(g.text) >= Capacity => e = g
        /\ Len(g.text) < Capacity => /\ Len(e.text) = Len(g.text) + 1 /\ e.pos # 0
                                     /\ IF paste \/ c = Continuation THEN e.undo = g.undo /\ e.valid = g.valid
                                        ELSE e.valid /\ e.undo.text = g.text
    BY <2>4, <2>5, <2>6, InsertByteText
  <2> HIDE DEF e
  <2>8. Len(g.text) \in Nat
    BY <2>5 DEF Edited, Text, Whole
  <2>9. CASE ~Room
    BY <1>2, <2>2, <2>3, <2>7, <2>9 DEF g
  <2>10. CASE Room /\ k = 0
    BY <1>2, <2>2, <2>3, <2>4, <2>7, <2>8, <2>10 DEF g
  <2>11. CASE Room /\ k # 0
    <3>1. First(g)
      BY <2>2, <2>11 DEF g
    <3>2. First(e)
      BY <1>2, <2>4, <2>7, <2>8, <2>11, <3>1
    <3> QED BY <2>2, <2>3, <2>7, <2>11, <3>2
  <2> QED BY <2>9, <2>10, <2>11
<1>5. Z = Nat
  <2>1. Z \in SUBSET Nat
    OBVIOUS
  <2> HIDE DEF Z
  <2> QED BY <1>3, <1>4, <2>1, Counted
<1>6. Good(Len(char))
  BY <1>0, <1>5
<1> QED BY <1>0, <1>1, <1>2, <1>6 DEF Entered

LEMMA Beside ==
  ASSUME NEW t, NEW p, Text(t, p)
  PROVE  /\ p # 0 => Text(t, Left(t, p)) /\ Left(t, p) < p
         /\ p # Len(t) => Text(t, Right(t, p)) /\ p < Right(t, p)
         /\ p = 0 => Left(t, p) = p
         /\ p = Len(t) => Right(t, p) = p
<1>0. Whole(t) /\ Len(t) \in Nat /\ p \in 0..Len(t)
  BY BoundaryIs DEF Text
<1>1. 0 \in Boundaries(t) /\ Len(t) \in Boundaries(t) /\ Boundaries(t) \subseteq 0..Len(t)
  BY <1>0 DEF Boundaries, Whole
<1>2. ASSUME p # 0 PROVE Text(t, Left(t, p)) /\ Left(t, p) < p
  <2> DEFINE Z == {b \in Boundaries(t) : b < p}
  <2>1. Z \in SUBSET (0..Len(t)) /\ Z # {}
    BY <1>0, <1>1, <1>2
  <2>2. \E x \in Z : \A y \in Z : x >= y
    <3> HIDE DEF Z
    <3> QED BY <1>0, <2>1, GreatestIn
  <2>3. Max(Z) \in Z
    <3> HIDE DEF Z
    <3> QED BY <2>2 DEF Max
  <2>4. Left(t, p) = Max(Z)
    BY <1>2 DEF Left
  <2> QED BY <1>0, <2>3, <2>4 DEF Text
<1>3. ASSUME p # Len(t) PROVE Text(t, Right(t, p)) /\ p < Right(t, p)
  <2> DEFINE Z == {b \in Boundaries(t) : b > p}
  <2>1. Z \in SUBSET Nat /\ Z # {}
    BY <1>0, <1>1, <1>3
  <2>2. \E x \in Z : \A y \in Z : x <= y
    <3> HIDE DEF Z
    <3> QED BY <2>1, LeastIn
  <2>3. Min(Z) \in Z
    <3> HIDE DEF Z
    <3> QED BY <2>2 DEF Min
  <2>4. Right(t, p) = Min(Z)
    BY <1>3 DEF Right
  <2> QED BY <1>0, <2>3, <2>4 DEF Text
<1> QED BY <1>2, <1>3 DEF Left, Right

\* The editor owes an undo exactly what the last edit changed.
Owed(d, before) == before = IF d.valid THEN <<d.undo.text>> ELSE <<>>
UndoGood ==
  /\ Edited(doc) /\ Whole(kept) /\ Owed(doc, past)
  /\ doc.ask => doc.open /\ doc.dirty

LEMMA EmptyText == Text(<<>>, 0) /\ \A t : Whole(t) => Text(t, 0)
<1>1. Whole(<<>>)
  BY EditorAssumption DEF Whole
<1>2. \A t : Whole(t) => Text(t, 0)
  BY BoundaryIs DEF Whole
<1> QED BY <1>1, <1>2

LEMMA OpenedTyped ==
  ASSUME NEW t, Whole(t), NEW r
  PROVE  /\ Edited(Opened(t, r)) /\ Owed(Opened(t, r), <<>>) /\ ~Opened(t, r).ask
         /\ \A d : Edited(DocClosed(d)) /\ Owed(DocClosed(d), <<>>) /\ ~DocClosed(d).ask
BY EmptyText DEF Edited, Owed, Opened, DocClosed, NoUndo, DocFields, UndoFields

LEMMA WithoutText ==
  ASSUME NEW d, Edited(d), NEW from, NEW to, Text(d.text, from), Text(d.text, to), from = to \/ from < to
  PROVE  LET e == Without(d, from, to) IN
         /\ Edited(e) /\ e.ask = d.ask /\ e.open = d.open
         /\ e = d \/ (e.valid /\ e.undo.text = d.text /\ e.text # d.text)
<1>1. CASE from = to
  BY <1>1 DEF Without
<1>2. CASE from # to
  <2> DEFINE u == SubSeq(d.text, 1, from) \o SubSeq(d.text, to + 1, Len(d.text))
  <2>1. Text(u, from) /\ Len(u) < Len(d.text)
    BY <1>2, TextCut
  <2>2. Without(d, from, to) = [Snapshot(d) EXCEPT !.text = u, !.pos = from, !.dirty = TRUE]
    BY <1>2 DEF Without, Snapshot, Edited, DocFields
  <2>3. u # d.text
    <3>1. Len(d.text) \in Nat
      BY DEF Edited, Text, Whole
    <3> HIDE DEF u
    <3> QED BY <2>1, <3>1
  <2> HIDE DEF u
  <2> QED BY <2>1, <2>2, <2>3 DEF Edited, Snapshot, DocFields, UndoFields
<1> QED BY <1>1, <1>2

LEMMA InsertCharAsks ==
  ASSUME NEW d, DOMAIN d = DocFields, NEW char, NEW paste, Len(char) \in Nat
  PROVE  LET e == InsertChar(d, char, paste) IN
         DOMAIN e = DocFields /\ e.ask = d.ask /\ e.open = d.open /\ (e.dirty \/ e = d)
<1>1. PICK f : Inserted(d, char, paste, Len(char), f) /\ InsertChar(d, char, paste) = f[Len(char)]
  BY InsertCharIs
<1>2. ASSUME NEW s, DOMAIN s = DocFields, NEW c
      PROVE  LET e == InsertByte(s, c, paste) IN
             DOMAIN e = DocFields /\ e.ask = s.ask /\ e.open = s.open /\ (e.dirty \/ e = s)
  BY <1>2 DEF InsertByte, Snapshot, DocFields
<1> DEFINE Good(e) == DOMAIN e = DocFields /\ e.ask = d.ask /\ e.open = d.open /\ (e.dirty \/ e = d)
           Z == {k \in Nat : k <= Len(char) => Good(f[k])}
<1>3. 0 \in Z
  <2>1. f[0] = d
    BY <1>1 DEF Inserted
  <2> QED BY <2>1
<1>4. ASSUME NEW k \in Z PROVE k + 1 \in Z
  <2>1. SUFFICES ASSUME k + 1 <= Len(char) PROVE Good(f[k + 1])
    BY <1>4
  <2>2. Good(f[k])
    BY <1>4, <2>1
  <2>3. f[k + 1] = InsertByte(f[k], char[k + 1], paste)
    <3>1. k + 1 \in 0..Len(char) /\ k + 1 # 0 /\ (k + 1) - 1 = k
      BY <1>4, <2>1
    <3> QED BY <1>1, <3>1 DEF Inserted
  <2> QED BY <1>2, <2>2, <2>3
<1>5. Z = Nat
  <2>1. Z \in SUBSET Nat
    OBVIOUS
  <2> HIDE DEF Z
  <2> QED BY <1>3, <1>4, <2>1, Counted
<1>6. Good(f[Len(char)])
  BY <1>5
<1> QED BY <1>1, <1>6

LEMMA CharsAre ==
  /\ \A c \in Chars : Char(c)
  /\ Char(<<Newline>>)
<1>1. ASSUME NEW c \in Chars PROVE Char(c)
  BY EditorAssumption DEF Char, Octets
<1>2. Char(<<Newline>>)
  BY DEF Char, Octets, Newline, Continuation
<1> QED BY <1>1, <1>2

LEMMA UndoStarts == ASSUME DocInit PROVE UndoGood
<1>1. Whole(kept)
  BY EditorAssumption DEF DocInit, Whole, Octets
<1> QED BY <1>1, OpenedTyped DEF DocInit, UndoGood

\* Every operation owes the undo the text it started from.
LEMMA UndoKeeps == ASSUME UndoGood, DocNext PROVE UndoGood'
<1>0. /\ Edited(doc) /\ Whole(kept) /\ Owed(doc, past) /\ (doc.ask => doc.open /\ doc.dirty)
      /\ DOMAIN doc = DocFields /\ DOMAIN doc.undo = UndoFields
      /\ Text(doc.text, doc.pos) /\ Text(doc.undo.text, doc.undo.pos) /\ Whole(doc.text)
  BY DEF UndoGood, Edited, Text
<1>a. ASSUME NEW d, Edited(d), NEW before, Owed(d, before), d.ask => d.open /\ d.dirty, Now(d, before) PROVE UndoGood'
  BY <1>0, <1>a DEF UndoGood, Now
\* An edit leaves the draft alone or can be taken back to it.
<1>b. ASSUME NEW d, Edited(d), ~d.ask, d = doc \/ (d.valid /\ d.undo.text = doc.text /\ d.text # doc.text), Changed(d)
      PROVE  UndoGood'
  <2>1. Owed(d, IF d.text = doc.text THEN past ELSE <<doc.text>>)
    BY <1>0, <1>b DEF Owed
  <2> QED BY <1>0, <1>b, <2>1 DEF UndoGood, Now, Changed
<1>1. ASSUME NEW r, DocOpen(r) PROVE UndoGood'
  BY <1>0, <1>1, <1>a, OpenedTyped DEF DocOpen
<1>2. ASSUME NEW c \in Chars, DocType(c) PROVE UndoGood'
  <2> DEFINE d == InsertChar(doc, c, FALSE)
  <2>1. Writing /\ Changed(d) /\ ~doc.ask /\ ~doc.readOnly
    BY <1>2 DEF DocType, Writing
  <2>2. Char(c) /\ Len(c) \in Nat
    BY CharsAre DEF Char
  <2>3. Entered(doc, d, FALSE)
    BY <1>0, <2>1, <2>2, InsertCharText
  <2>4. d.ask = doc.ask
    BY <1>0, <2>2, InsertCharAsks
  <2> HIDE DEF d
  <2> QED BY <1>b, <2>1, <2>3, <2>4 DEF Entered
<1>3. ASSUME NEW from, NEW to, DocErase(from, to), Text(doc.text, from), Text(doc.text, to), from = to \/ from < to
      PROVE  UndoGood'
  <2> DEFINE d == Without(doc, from, to)
  <2>1. Changed(d) /\ ~doc.ask
    BY <1>3 DEF DocErase, Writing
  <2>2. Edited(d) /\ d.ask = doc.ask /\ (d = doc \/ (d.valid /\ d.undo.text = doc.text /\ d.text # doc.text))
    BY <1>0, <1>3, WithoutText
  <2> HIDE DEF d
  <2> QED BY <1>b, <2>1, <2>2
<1>4. CASE DocErase(Left(doc.text, doc.pos), doc.pos) \/ DocErase(doc.pos, Right(doc.text, doc.pos))
  <2>1. CASE DocErase(Left(doc.text, doc.pos), doc.pos)
    <3> DEFINE from == Left(doc.text, doc.pos)
    <3>1. Text(doc.text, from) /\ (from = doc.pos \/ from < doc.pos)
      BY <1>0, Beside
    <3> HIDE DEF from
    <3> QED BY <1>0, <1>3, <2>1, <3>1 DEF from
  <2>2. CASE DocErase(doc.pos, Right(doc.text, doc.pos))
    <3> DEFINE to == Right(doc.text, doc.pos)
    <3>1. Text(doc.text, to) /\ (doc.pos = to \/ doc.pos < to)
      BY <1>0, Beside
    <3> HIDE DEF to
    <3> QED BY <1>0, <1>3, <2>2, <3>1 DEF to
  <2> QED BY <1>4, <2>1, <2>2
<1>5. ASSUME NEW p \in Boundaries(doc.text), DocMove(p) PROVE UndoGood'
  <2>1. Edited([doc EXCEPT !.pos = p]) /\ Owed([doc EXCEPT !.pos = p], past)
    BY <1>0 DEF Edited, Text, Owed, DocFields, UndoFields
  <2>2. [doc EXCEPT !.pos = p].ask = doc.ask /\ ~doc.ask
    BY <1>0, <1>5 DEF DocFields, DocMove
  <2> QED BY <1>5, <1>a, <2>1, <2>2 DEF DocMove
<1>6. CASE DocUndo
  <2>1. Edited(Swap(doc)) /\ Owed(Swap(doc), <<doc.text>>) /\ Swap(doc).ask = doc.ask /\ ~doc.ask
    BY <1>0, <1>6 DEF Edited, Owed, Swap, DocUndo, Writing, DocFields, UndoFields
  <2> QED BY <1>6, <1>a, <2>1 DEF DocUndo
<1>7. ASSUME NEW ok, DocSave(ok) PROVE UndoGood'
  <2>1. Edited(Saved(doc)) /\ Owed(Saved(doc), <<>>) /\ Saved(doc).ask = doc.ask /\ ~doc.ask
    BY <1>0, <1>7, EmptyText DEF Edited, Owed, Saved, NoUndo, DocSave, Writing, DocFields, UndoFields
  <2> QED BY <1>0, <1>7, <1>a, <2>1 DEF DocSave, UndoGood
<1>8. CASE DocLeave
  <2>1. Edited([doc EXCEPT !.ask = TRUE]) /\ Owed([doc EXCEPT !.ask = TRUE], past)
        /\ [doc EXCEPT !.ask = TRUE].open = doc.open /\ [doc EXCEPT !.ask = TRUE].dirty = doc.dirty
    BY <1>0 DEF Edited, Owed, DocFields
  <2>2. Edited(DocClosed(doc)) /\ Owed(DocClosed(doc), <<>>) /\ ~DocClosed(doc).ask
    BY <1>0, OpenedTyped
  <2> QED BY <1>8, <1>a, <2>1, <2>2 DEF DocLeave
<1>9. ASSUME NEW k, NEW ok, DocAnswer(k, ok) PROVE UndoGood'
  <2>1. Edited([doc EXCEPT !.ask = FALSE]) /\ Owed([doc EXCEPT !.ask = FALSE], past) /\ ~[doc EXCEPT !.ask = FALSE].ask
    BY <1>0 DEF Edited, Owed, DocFields
  <2>2. Edited(DocClosed(doc)) /\ Owed(DocClosed(doc), <<>>) /\ ~DocClosed(doc).ask
    BY <1>0, OpenedTyped
  <2> QED BY <1>9, <1>0, <1>a, <2>1, <2>2 DEF DocAnswer, UndoGood
<1>10. CASE DocPaste \/ DocPasteEnd
  <2>1. Edited(Snapshot(doc)) /\ Owed(Snapshot(doc), <<doc.text>>) /\ Snapshot(doc).ask = doc.ask
    BY <1>0 DEF Edited, Owed, Snapshot, DocFields, UndoFields
  <2> QED BY <1>0, <1>10, <2>1 DEF DocPaste, DocPasteEnd, UndoGood
<1>11. ASSUME NEW c \in Chars \cup {<<Newline>>, <<"\r">>}, DocPasted(c) PROVE UndoGood'
  <2> DEFINE u == IF c = <<"\r">> THEN <<Newline>> ELSE c
             l == c = <<"\r">>
             z == [doc EXCEPT !.lf = l]
             d == InsertChar(z, u, TRUE)
             n == [doc EXCEPT !.lf = FALSE]
  <2>1. Char(u) /\ Len(u) \in Nat
    <3>1. Char(u)
      BY CharsAre, Zenon
    <3> HIDE DEF u
    <3> QED BY <3>1 DEF Char
  <2>2. Now(IF doc.ask \/ doc.readOnly THEN doc ELSE IF c = <<Newline>> /\ doc.lf THEN n ELSE d, past)
    BY <1>11, Zenon DEF DocPasted
  <2> HIDE DEF u, l
  <2>3. Edited(z) /\ DOMAIN z = DocFields /\ z.undo = doc.undo /\ z.valid = doc.valid /\ z.ask = doc.ask /\ z.readOnly = doc.readOnly
    BY <1>0 DEF Edited, DocFields
  <2>4. Edited(n) /\ Owed(n, past) /\ n.ask = doc.ask
    BY <1>0 DEF Edited, Owed, DocFields
  <2> HIDE DEF z, n
  <2>5. ASSUME ~doc.ask, ~doc.readOnly PROVE Edited(d) /\ Owed(d, past) /\ ~d.ask
    <3>1. ~z.readOnly
      BY <2>3, <2>5
    <3>2. Entered(z, d, TRUE)
      BY <2>1, <2>3, <3>1, InsertCharText
    <3>3. d.ask = z.ask
      BY <2>1, <2>3, InsertCharAsks, ZenonT(60)
    <3> HIDE DEF d
    <3> QED BY <1>0, <2>3, <2>5, <3>2, <3>3 DEF Entered, Owed
  <2> HIDE DEF d
  <2> QED BY <1>0, <1>a, <2>2, <2>4, <2>5
<1> QED BY <1>1, <1>2, <1>4, <1>5, <1>6, <1>7, <1>8, <1>9, <1>10, <1>11 DEF DocNext

\* So the cursor is between characters, and an undo is one step.
LEMMA UndoGoodMeans ==
  ASSUME UndoGood
  PROVE  DocTypeOK /\ UndoIsOneStep
<1>1. /\ Edited(doc) /\ Whole(doc.text) /\ doc.pos \in Boundaries(doc.text) /\ Owed(doc, past)
      /\ doc.ask => doc.open /\ doc.dirty
  BY DEF UndoGood, Edited, Text
<1>2. DocTypeOK
  BY <1>1 DEF DocTypeOK, Whole, Owed
<1>3. UndoIsOneStep
  <2>1. SUFFICES ASSUME DocUndo PROVE past # <<>> /\ doc'.text = past[1]
    BY DEF UndoIsOneStep
  <2>2. doc.valid /\ doc' = Swap(doc)
    BY <2>1 DEF DocUndo, Now
  <2>3. past = <<doc.undo.text>>
    BY <1>1, <2>2 DEF Owed
  <2>4. doc'.text = doc.undo.text
    BY <1>1, <2>2 DEF Swap, Edited, DocFields
  <2> QED BY <2>3, <2>4
<1> QED BY <1>2, <1>3

-----------------------------------------------------------------------------
(* The hex editor.                                                          *)

HexFields == {"open", "data", "pos", "low", "ascii", "dirty", "ask"}
IsMap(f) == f = [i \in DOMAIN f |-> f[i]]
HexGood ==
  /\ DOMAIN hex = HexFields
  /\ hex.open => IsMap(hex.data)
  /\ IsMap(flash)
  /\ HexIsHonest

LEMMA HexStarts == ASSUME HexInit PROVE HexGood
<1>1. IsMap(flash)
  BY HexAssumption DEF HexInit, IsMap
<1> QED BY <1>1 DEF HexInit, HexGood, HexOpened, HexFields, HexIsHonest

\* A draft whose byte is overwritten by the same byte is the same draft.
LEMMA OverwrittenHonest ==
  ASSUME HexGood, hex.open, NEW value
  PROVE  LET h == Overwritten(hex, value) IN
         /\ DOMAIN h = HexFields /\ h.open /\ IsMap(h.data)
         /\ ~h.dirty => h.data = flash
<1> DEFINE d == hex.data
           e == [d EXCEPT ![hex.pos] = value]
           h == Overwritten(hex, value)
<1>1. IsMap(d) /\ DOMAIN hex = HexFields /\ (~hex.dirty => d = flash)
  BY DEF HexGood, HexIsHonest
<1>2. IsMap(e)
  BY DEF IsMap
<1>3. d[hex.pos] = value => e = d
  BY <1>1 DEF IsMap
<1>4. h.data = e /\ DOMAIN h = HexFields /\ h.open = hex.open /\ (h.dirty <=> hex.dirty \/ d[hex.pos] # value)
  BY <1>1 DEF Overwritten, HexFields
<1> HIDE DEF d, e, h
<1>5. DOMAIN h = HexFields /\ h.open /\ IsMap(h.data) /\ (~h.dirty => h.data = flash)
  BY <1>1, <1>2, <1>3, <1>4
<1> QED BY <1>5 DEF h

\* An image called unmodified is the one stored.
LEMMA HexKeeps == ASSUME HexGood, HexNext PROVE HexGood'
<1>0. DOMAIN hex = HexFields /\ IsMap(flash) /\ (hex.open => IsMap(hex.data)) /\ (hex.open /\ ~hex.dirty => hex.data = flash)
  BY DEF HexGood, HexIsHonest
<1>1. CASE HexOpen
  BY <1>0, <1>1 DEF HexOpen, HexStays, HexOpened, HexGood, HexIsHonest, HexFields
<1>2. ASSUME NEW by, HexStep(by) PROVE HexGood'
  <2> DEFINE p == Max({1, Min({Bytes, hex.pos + by})})
  <2>1. hex' = [hex EXCEPT !.pos = p, !.low = FALSE] /\ flash' = flash
    BY <1>2 DEF HexStep, HexStays
  <2> HIDE DEF p
  <2> QED BY <1>0, <2>1 DEF HexGood, HexIsHonest, HexFields
<1>3. CASE HexTab
  BY <1>0, <1>3 DEF HexTab, HexStays, HexGood, HexIsHonest, HexFields
<1>4. ASSUME NEW ok, HexSave(ok) PROVE HexGood'
  BY <1>0, <1>4 DEF HexSave, HexStays, HexGood, HexIsHonest, HexFields
<1>c. DOMAIN HexClosed = HexFields /\ ~HexClosed.open
  BY DEF HexClosed, HexOpened, HexFields
<1>5. CASE HexLeave
  BY <1>0, <1>5, <1>c DEF HexLeave, HexStays, HexGood, HexIsHonest, HexFields
<1>6. ASSUME NEW k, NEW ok, HexKey(k, ok) PROVE HexGood'
  <2>1. CASE \E value : HexStays(Overwritten(hex, value))
    <3>1. PICK value : HexStays(Overwritten(hex, value))
      BY <2>1
    <3>2. hex.open
      BY <1>6 DEF HexKey
    <3> QED BY <1>0, <3>1, <3>2, OverwrittenHonest DEF HexStays, HexGood, HexIsHonest
  <2>2. CASE HexStays(HexClosed) \/ (hex' = HexClosed /\ flash' = hex.data /\ hex.open) \/ HexStays(hex)
    BY <1>0, <1>c, <2>2 DEF HexStays, HexGood, HexIsHonest
  <2> QED BY <1>6, <2>1, <2>2 DEF HexKey
<1> QED BY <1>1, <1>2, <1>3, <1>4, <1>5, <1>6 DEF HexNext
LEMMA MinOfTwo == ASSUME NEW a \in Int, NEW b \in Int PROVE Min({a, b}) = IF a <= b THEN a ELSE b
<1>1. \E x \in {a, b} : \A y \in {a, b} : x <= y
  OBVIOUS
<1>2. Min({a, b}) \in {a, b} /\ \A y \in {a, b} : Min({a, b}) <= y
  BY <1>1, Zenon DEF Min
<1> QED BY <1>2
LEMMA MaxOfTwo == ASSUME NEW a \in Int, NEW b \in Int PROVE Max({a, b}) = IF a >= b THEN a ELSE b
<1>1. \E x \in {a, b} : \A y \in {a, b} : x >= y
  OBVIOUS
<1>2. Max({a, b}) \in {a, b} /\ \A y \in {a, b} : Max({a, b}) >= y
  BY <1>1, Zenon DEF Max
<1> QED BY <1>2

\* The draft and the caller's buffer are bytes, and the cursor is on one of them.
HexFine == HexTypeOK /\ flash \in [1..Bytes -> 0..255]

LEMMA HexStartsFine == ASSUME HexInit PROVE HexFine
<1>1. flash \in [1..Bytes -> 0..255] /\ Bytes \in Nat
  BY HexAssumption DEF HexInit
<1>2. 1 \in 1..Max({1, Bytes})
  BY <1>1, MaxOfTwo
<1> QED BY <1>1, <1>2 DEF HexInit, HexFine, HexTypeOK, HexOpened

LEMMA NibbledIsByte ==
  ASSUME NEW byte \in 0..255, NEW digit \in 0..15, NEW low
  PROVE  Nibbled(byte, digit, low) \in 0..255
<1>1. byte \div 16 \in 0..15 /\ byte % 16 \in 0..15
  OBVIOUS
<1> QED BY <1>1 DEF Nibbled

LEMMA OverwrittenFine ==
  ASSUME HexGood, HexFine, hex.open, Bytes # 0, ~hex.ask, NEW value \in 0..255
  PROVE  LET h == Overwritten(hex, value) IN
         /\ h.data \in [1..Bytes -> 0..255] /\ h.pos \in 1..Max({1, Bytes})
         /\ ~h.ask /\ (h.ascii => ~h.low)
<1> DEFINE whole == hex.ascii \/ hex.low
           d == [hex.data EXCEPT ![hex.pos] = value]
           p == IF whole /\ hex.pos < Bytes THEN hex.pos + 1 ELSE hex.pos
           h == Overwritten(hex, value)
<1>1. /\ DOMAIN hex = HexFields /\ hex.data \in [1..Bytes -> 0..255] /\ hex.pos \in 1..Max({1, Bytes})
      /\ Bytes \in Nat
  BY HexAssumption DEF HexGood, HexFine, HexTypeOK
<1>2. Max({1, Bytes}) = Bytes
  BY <1>1, MaxOfTwo
<1>3. d \in [1..Bytes -> 0..255]
  BY <1>1
<1>p. hex.pos \in 1..Bytes
  BY <1>1, <1>2
<1>q. p \in 1..Bytes
  BY <1>1, <1>p
<1>4. h.data = d /\ h.pos = p /\ h.ask = hex.ask /\ h.ascii = hex.ascii /\ (h.low <=> ~whole)
  BY <1>1 DEF Overwritten, HexFields
<1> HIDE DEF h, d, p
<1>5. /\ h.data \in [1..Bytes -> 0..255] /\ h.pos \in 1..Max({1, Bytes})
      /\ ~h.ask /\ (h.ascii => ~h.low)
  BY <1>2, <1>3, <1>q, <1>4
<1> QED BY <1>5 DEF h

LEMMA HexKeepsFine == ASSUME HexGood, HexFine, HexNext PROVE HexFine'
<1> DEFINE M == Max({1, Bytes})
<1>0. /\ DOMAIN hex = HexFields /\ flash \in [1..Bytes -> 0..255] /\ Bytes \in Nat
      /\ Columns \in Nat
      /\ hex.open => hex.data \in [1..Bytes -> 0..255] /\ hex.pos \in 1..M
      /\ hex.ask => hex.dirty
      /\ hex.ascii => ~hex.low
  BY HexAssumption DEF HexGood, HexFine, HexTypeOK
<1>f. HexFine' <=> /\ hex'.open => hex'.data \in [1..Bytes -> 0..255] /\ hex'.pos \in 1..M
                   /\ hex'.ask => hex'.dirty
                   /\ hex'.ascii => ~hex'.low
                   /\ flash' \in [1..Bytes -> 0..255]
  BY DEF HexFine, HexTypeOK
<1>m. M = IF 1 >= Bytes THEN 1 ELSE Bytes
  BY <1>0, MaxOfTwo
<1> HIDE DEF M
<1>1. CASE HexOpen
  <2>1. 1 \in 1..M
    BY <1>0, <1>m
  <2> QED BY <1>0, <1>1, <1>f, <2>1 DEF HexOpen, HexStays, HexOpened
<1>2. ASSUME NEW by \in {-Bytes, -Columns, -1, 1, Columns, Bytes}, HexStep(by) PROVE HexFine'
  <2> DEFINE q == hex.pos + by
             m == Min({Bytes, q})
             p == Max({1, m})
  <2>1. hex.open /\ hex' = [hex EXCEPT !.pos = p, !.low = FALSE] /\ flash' = flash
    BY <1>2 DEF HexStep, HexStays
  <2>2. q \in Int
    BY <1>0, <2>1
  <2> HIDE DEF q
  <2>3. m \in Int /\ m <= Bytes
    BY <1>0, <2>2, MinOfTwo
  <2> HIDE DEF m
  <2>4. p \in 1..M
    BY <1>0, <1>m, <2>3, MaxOfTwo
  <2> HIDE DEF p
  <2> QED BY <1>0, <1>f, <2>1, <2>4 DEF HexFields
<1>3. CASE HexTab
  BY <1>0, <1>f, <1>3 DEF HexTab, HexStays, HexFields
<1>4. ASSUME NEW ok, HexSave(ok) PROVE HexFine'
  <2>1. CASE hex' = hex /\ flash' = flash
    BY <1>0, <1>f, <2>1
  <2>2. CASE hex.open /\ ~hex.ask /\ hex' = [hex EXCEPT !.dirty = FALSE] /\ flash' = hex.data
    <3>1. /\ hex'.open = hex.open /\ hex'.data = hex.data /\ hex'.pos = hex.pos
          /\ hex'.ask = hex.ask /\ hex'.ascii = hex.ascii /\ hex'.low = hex.low
      BY <1>0, <2>2 DEF HexFields
    <3> QED BY <1>0, <1>f, <2>2, <3>1
  <2> QED BY <1>4, <2>1, <2>2 DEF HexSave, HexStays
<1>c. ~HexClosed.open /\ ~HexClosed.ask /\ ~HexClosed.ascii
  BY DEF HexClosed, HexOpened
<1>5. CASE HexLeave
  BY <1>0, <1>f, <1>5, <1>c DEF HexLeave, HexStays, HexFields
<1>6. ASSUME NEW k \in DOMAIN CodeOf, NEW ok, HexKey(k, ok) PROVE HexFine'
  <2>1. ASSUME NEW value \in 0..255, HexStays(Overwritten(hex, value)), Bytes # 0, ~hex.ask PROVE HexFine'
    <3>1. hex.open
      BY <1>6 DEF HexKey
    <3> DEFINE h == Overwritten(hex, value)
    <3>2. /\ h.data \in [1..Bytes -> 0..255] /\ h.pos \in 1..Max({1, Bytes})
          /\ ~h.ask /\ (h.ascii => ~h.low)
      BY <2>1, <3>1, OverwrittenFine, Zenon
    <3>3. hex' = h /\ flash' = flash
      BY <2>1 DEF HexStays
    <3> HIDE DEF h
    <3> QED BY <1>0, <1>f, <3>2, <3>3 DEF M
  <2>2. CASE HexStays(HexClosed) \/ (hex' = HexClosed /\ flash' = hex.data /\ hex.open) \/ HexStays(hex)
    BY <1>0, <1>c, <1>f, <2>2, ZenonT(60) DEF HexStays
  <2>3. CASE ~hex.ask /\ hex.ascii /\ Bytes # 0 /\ HexStays(Overwritten(hex, CodeOf[k]))
    <3>1. CodeOf[k] \in 0..255
      BY HexAssumption
    <3> QED BY <2>1, <2>3, <3>1
  <2>4. CASE /\ ~hex.ask /\ ~hex.ascii /\ k \in DOMAIN DigitOf /\ Bytes # 0 /\ hex.open
             /\ HexStays(Overwritten(hex, Nibbled(hex.data[hex.pos], DigitOf[k], hex.low)))
    <3>1. DigitOf[k] \in 0..15
      BY <2>4, HexAssumption
    <3>m. M = Bytes
      BY <1>0, <1>m, <2>4
    <3>p. hex.pos \in 1..Bytes
      BY <1>0, <3>m, <2>4
    <3>2. hex.data[hex.pos] \in 0..255
      BY <1>0, <3>p, <2>4
    <3>3. Nibbled(hex.data[hex.pos], DigitOf[k], hex.low) \in 0..255
      BY <3>1, <3>2, NibbledIsByte
    <3> QED BY <2>1, <2>4, <3>3
  <2> QED BY <1>6, <2>2, <2>3, <2>4 DEF HexKey
<1> QED BY <1>1, <1>2, <1>3, <1>4, <1>5, <1>6 DEF HexNext

-----------------------------------------------------------------------------
(* The form.                                                                *)

\* The caller's check of a field looks at the fields before it, as the form stores
\* them, and at no later one.
LooksBack ==
  \A at \in 1..Len(Fields) : \A value, stored, other :
    (\A j \in 1..(at - 1) : stored[j] = other[j]) => (Refuses(at, value, stored) <=> Refuses(at, value, other))

FormFields == {"open", "overview", "at", "error", "edit", "choice"}
\* The caller's storage, and what fits the edit buffer of it.
InBuffer(text) == text \in Seq(STRING) /\ Len(text) <= Cells
Stores(stored) ==
  /\ DOMAIN stored = 1..Len(Fields)
  /\ \A i \in 1..Len(Fields) : Fields[i].kind # "choice" => InBuffer(stored[i])
PassedBefore(n, stored) == LooksBack => \A i \in 1..Len(Fields) : i < n => Passes(i, stored[i], stored)
FormGood ==
  /\ DOMAIN form = FormFields /\ form.at \in 1..Len(Fields) /\ InBuffer(form.edit) /\ Stores(values)
  /\ form.open => outcome = <<>> /\ PassedBefore(form.at, values)
  /\ ~form.open => form.edit = <<>> /\ Len(outcome) = 1 /\ (outcome = <<TRUE>> => PassedBefore(Len(Fields) + 1, values))

LEMMA FieldCount == Len(Fields) \in Nat \ {0}
BY FormAssumption

LEMMA CellsAre == Cells \in Nat /\ Letters \subseteq STRING
BY FormAssumption, Zenon

LEMMA EmptyFits == InBuffer(<<>>)
<1>1. <<>> \in Seq(STRING) /\ Len(<<>>) = 0
  OBVIOUS
<1> QED BY <1>1, FormAssumption DEF InBuffer

LEMMA LoadedFits ==
  ASSUME NEW stored, Stores(stored), NEW overview, NEW at \in 1..Len(Fields)
  PROVE  /\ DOMAIN Loaded(overview, at, stored) = FormFields /\ Loaded(overview, at, stored).at = at
         /\ InBuffer(Loaded(overview, at, stored).edit) /\ Loaded(overview, at, stored).open
<1> DEFINE e == IF Fields[at].kind = "choice" THEN <<>> ELSE stored[at]
           l == Loaded(overview, at, stored)
<1>1. DOMAIN l = FormFields /\ l.at = at /\ l.edit = e /\ l.open
  BY DEF Loaded, FormFields
<1>2. InBuffer(e)
  BY EmptyFits DEF Stores
<1> QED BY <1>1, <1>2

\* A field that passes is stored, and the fields before it still pass.
LEMMA StillBelow ==
  ASSUME NEW stored, Stores(stored), NEW at \in 1..Len(Fields), NEW value,
         PassedBefore(at, stored), Passes(at, value, stored)
  PROVE  PassedBefore(at + 1, [stored EXCEPT ![at] = value])
<1> DEFINE new == [stored EXCEPT ![at] = value]
<1>1. SUFFICES ASSUME LooksBack, NEW i \in 1..Len(Fields), i < at + 1 PROVE Passes(i, new[i], new)
  BY DEF PassedBefore
<1>2. Len(Fields) \in Nat
  BY FieldCount
<1>3. \A j \in 1..Len(Fields) : new[j] = IF j = at THEN value ELSE stored[j]
  BY DEF Stores
<1> HIDE DEF new
<1>4. \A j \in 1..(i - 1) : stored[j] = new[j]
  <2> SUFFICES ASSUME NEW j \in 1..(i - 1) PROVE stored[j] = new[j]
    OBVIOUS
  <2>1. j \in 1..Len(Fields) /\ j # at
    BY <1>1, <1>2
  <2> QED BY <1>3, <2>1
<1>5. \A x : Refuses(i, x, stored) <=> Refuses(i, x, new)
  BY <1>1, <1>4 DEF LooksBack
<1>6. \A x : Passes(i, x, stored) => Passes(i, x, new)
  BY <1>5 DEF Passes
<1>7. CASE i = at
  BY <1>3, <1>6, <1>7
<1>8. CASE i # at
  <2>1. i < at
    BY <1>1, <1>2, <1>8
  <2>2. Passes(i, stored[i], stored)
    BY <1>1, <2>1 DEF PassedBefore
  <2> QED BY <1>3, <1>6, <1>8, <2>2
<1> QED BY <1>7, <1>8

LEMMA BelowLess == \A n, m, stored : n \in Nat /\ m \in Nat /\ n <= m /\ PassedBefore(m, stored) => PassedBefore(n, stored)
<1> SUFFICES ASSUME NEW n \in Nat, NEW m \in Nat, NEW stored, n <= m, PassedBefore(m, stored), LooksBack,
                    NEW i \in 1..Len(Fields), i < n
             PROVE  Passes(i, stored[i], stored)
  BY DEF PassedBefore
<1>1. i < m
  BY FieldCount
<1> QED BY <1>1 DEF PassedBefore

LEMMA FormStarts == ASSUME FormInit PROVE FormGood
<1>1. PICK o \in BOOLEAN : form = Loaded(o, 1, values)
  BY DEF FormInit
<1>2. values \in Filled /\ outcome = <<>>
  BY DEF FormInit
<1>3. Stores(values)
  BY <1>2, FormAssumption DEF Stores, InBuffer
<1>4. 1 \in 1..Len(Fields)
  BY FieldCount
<1>5. DOMAIN form = FormFields /\ form.at = 1 /\ InBuffer(form.edit) /\ form.open
  BY <1>1, <1>3, <1>4, LoadedFits
<1>6. PassedBefore(1, values)
  BY FieldCount DEF PassedBefore
<1> QED BY <1>2, <1>3, <1>4, <1>5, <1>6 DEF FormGood

\* An answer goes into the caller's field; the form goes on, or is done after the last.
LEMMA StepKeeps == ASSUME FormGood, NEW key, FormStep(key) PROVE FormGood'
<1> DEFINE c == Candidate
           stored == [values EXCEPT ![form.at] = c]
           n == Len(Fields)
<1>0. /\ form.open /\ DOMAIN form = FormFields /\ form.at \in 1..n /\ InBuffer(form.edit) /\ Stores(values)
      /\ outcome = <<>> /\ PassedBefore(form.at, values) /\ n \in Nat \ {0}
  BY FieldCount DEF FormGood, FormStep
<1>1. CASE ~Passes(form.at, Candidate, values)
  <2>1. form' = [form EXCEPT !.error = TRUE] /\ values' = values /\ outcome' = outcome
    BY <1>1, Zenon DEF FormStep
  <2>2. DOMAIN form' = FormFields /\ form'.at = form.at /\ form'.edit = form.edit /\ form'.open
    BY <1>0, <2>1 DEF FormFields
  <2> QED BY <1>0, <2>1, <2>2 DEF FormGood
<1>2. CASE Passes(form.at, Candidate, values)
  <2>1. values' = stored
    BY <1>2, Zenon DEF FormStep
  <2>2. Stores(stored)
    <3>1. Fields[form.at].kind # "choice" => InBuffer(c)
      BY <1>0 DEF Candidate
    <3>2. DOMAIN stored = 1..n /\ \A i \in 1..n : stored[i] = IF i = form.at THEN c ELSE values[i]
      BY <1>0 DEF Stores
    <3> HIDE DEF c, stored
    <3> QED BY <1>0, <3>1, <3>2 DEF Stores
  <2>3. PassedBefore(form.at + 1, stored)
    BY <1>0, <1>2, StillBelow
  <2> HIDE DEF c, stored
  <2>4. ASSUME NEW at \in 1..n, at <= form.at + 1, form' = Loaded(form.overview, at, stored), outcome' = outcome
        PROVE  FormGood'
    <3>1. DOMAIN form' = FormFields /\ form'.at = at /\ InBuffer(form'.edit) /\ form'.open
      BY <2>2, <2>4, LoadedFits
    <3>2. at \in Nat /\ form.at + 1 \in Nat
      BY <1>0
    <3>3. PassedBefore(at, stored)
      BY <2>3, <2>4, <3>2, BelowLess
    <3> QED BY <1>0, <2>1, <2>2, <2>4, <3>1, <3>3 DEF FormGood
  <2>5. CASE key = "backtab" /\ form.at > 1
    <3>1. form' = Loaded(form.overview, form.at - 1, stored) /\ outcome' = outcome
      BY <1>2, <2>1, <2>5, Zenon DEF FormStep
    <3>2. form.at - 1 \in 1..n /\ form.at - 1 <= form.at + 1
      BY <1>0, <2>5
    <3> QED BY <2>4, <3>1, <3>2
  <2>6. CASE key # "backtab" /\ form.at < n
    <3>1. form' = Loaded(form.overview, form.at + 1, stored) /\ outcome' = outcome
      <4>1. ~(key = "backtab" /\ form.at > 1)
        BY <2>6
      <4>2. key # "backtab" /\ form.at < Len(Fields)
        BY <2>6
      <4>3. ~(key = "enter" /\ form.at = Len(Fields))
        BY <1>0, <2>6
      <4> HIDE DEF n
      <4> QED BY <1>2, <2>1, <4>1, <4>2, <4>3 DEF FormStep
    <3>2. form.at + 1 \in 1..n /\ form.at + 1 <= form.at + 1
      BY <1>0, <2>6
    <3> QED BY <2>4, <3>1, <3>2
  <2>7. CASE key = "enter" /\ form.at = n
    <3>1. Finish(TRUE)
      <4>1. ~(key = "backtab" /\ form.at > 1) /\ ~(key # "backtab" /\ form.at < n)
        BY <1>0, <2>7
      <4> QED BY <1>2, <2>1, <2>7, <4>1 DEF FormStep
    <3>2. form' = FormClosed /\ outcome' = Append(<<>>, TRUE)
      BY <1>0, <3>1 DEF Finish
    <3>3. DOMAIN form' = FormFields /\ form'.at = 1 /\ form'.edit = <<>> /\ ~form'.open
      BY <3>2 DEF FormClosed, FormFields
    <3>4. Len(outcome') = 1
      BY <3>2
    <3>5. 1 \in 1..n
      BY <1>0
    <3> QED BY <2>1, <2>2, <2>3, <2>7, <3>3, <3>4, <3>5, EmptyFits DEF FormGood
  <2>8. CASE ~(key = "backtab" /\ form.at > 1) /\ ~(key # "backtab" /\ form.at < n) /\ ~(key = "enter" /\ form.at = n)
    <3>1. form' = Loaded(form.overview, form.at, stored) /\ outcome' = outcome
      BY <1>2, <2>1, <2>8 DEF FormStep
    <3>2. form.at <= form.at + 1
      BY <1>0
    <3> QED BY <1>0, <2>4, <3>1, <3>2
  <2> QED BY <2>5, <2>6, <2>7, <2>8
<1> QED BY <1>1, <1>2

LEMMA EditKeeps ==
  ASSUME FormGood, form.open, NEW text, InBuffer(text), Edits(text)
  PROVE  FormGood'
<1>1. form' = [form EXCEPT !.edit = text, !.error = FALSE] /\ values' = values /\ outcome' = outcome
  BY DEF Edits
<1>2. DOMAIN form' = FormFields /\ form'.at = form.at /\ form'.edit = text /\ form'.open
  BY <1>1 DEF FormGood, FormFields
<1> QED BY <1>1, <1>2 DEF FormGood

LEMMA FormKeeps == ASSUME FormGood, FormNext PROVE FormGood'
<1>0. form.open => DOMAIN form = FormFields /\ form.at \in 1..Len(Fields) /\ InBuffer(form.edit) /\ Stores(values) /\ outcome = <<>>
  BY DEF FormGood
<1>1. ASSUME NEW k, FormStep(k) PROVE FormGood'
  BY <1>1, StepKeeps
<1>2. CASE FormCancel
  <2>1. form' = FormClosed /\ outcome' = Append(<<>>, FALSE) /\ values' = values
    BY <1>0, <1>2 DEF FormCancel, Finish
  <2>2. DOMAIN form' = FormFields /\ form'.at = 1 /\ form'.edit = <<>> /\ ~form'.open
    BY <2>1 DEF FormClosed, FormFields
  <2>3. Len(outcome') = 1 /\ outcome'[1] = FALSE /\ <<TRUE>>[1] = TRUE
    BY <2>1
  <2>4. 1 \in 1..Len(Fields)
    BY FieldCount
  <2> QED BY <1>0, <1>2, <2>1, <2>2, <2>3, <2>4, EmptyFits DEF FormGood, FormCancel
<1>3. CASE FormErase
  <2>1. ASSUME NEW p \in 1..Len(form.edit), form.open PROVE InBuffer(RemoveAt(form.edit, p))
    <3> DEFINE e == form.edit
               m == Len(e)
               left == SubSeq(e, 1, p - 1)
               right == SubSeq(e, p + 1, m)
    <3>0. e \in Seq(STRING) /\ m <= Cells
      BY <1>0, <2>1 DEF InBuffer
    <3>m. m \in Nat
      BY <3>0
    <3>1. e \in Seq(STRING) /\ m \in Nat /\ m <= Cells /\ Cells \in Nat
      BY <3>0, <3>m, CellsAre
    <3>2. left \in Seq(STRING) /\ Len(left) = p - 1 /\ right \in Seq(STRING) /\ Len(right) = m - p
      <4> HIDE DEF e
      <4> QED BY <3>1, <2>1 DEF e
    <3>3. \A a, b \in Seq(STRING) : a \o b \in Seq(STRING) /\ Len(a \o b) = Len(a) + Len(b)
      OBVIOUS
    <3>4. RemoveAt(e, p) = left \o right
      BY DEF RemoveAt
    <3>5. p \in 1..m
      BY <2>1
    <3> HIDE DEF left, right, m
    <3>6. left \o right \in Seq(STRING) /\ Len(left \o right) <= Cells
      BY <3>1, <3>2, <3>3, <3>5
    <3> QED BY <3>4, <3>6 DEF InBuffer
  <2> QED BY <1>0, <1>3, <2>1, EditKeeps, EmptyFits DEF FormErase, EditsText
<1>4. ASSUME NEW c \in Letters, FormType(c) PROVE FormGood'
  <2>0. form.open
    BY <1>4 DEF FormType, EditsText
  <2>1. CASE Len(form.edit) >= Cells
    <3>1. form' = [form EXCEPT !.error = TRUE] /\ values' = values /\ outcome' = outcome
      BY <1>4, <2>1 DEF FormType
    <3>2. DOMAIN form' = FormFields /\ form'.at = form.at /\ form'.edit = form.edit /\ form'.open
      BY <1>0, <2>0, <3>1 DEF FormFields
    <3> QED BY <2>0, <3>1, <3>2 DEF FormGood
  <2>2. CASE ~(Len(form.edit) >= Cells)
    <3> DEFINE e == form.edit
               m == Len(e)
    <3>0. Cells \in Nat /\ c \in STRING
      BY CellsAre
    <3>e. e \in Seq(STRING) /\ ~(m >= Cells)
      BY <1>0, <2>0, <2>2 DEF InBuffer
    <3>m. m \in Nat
      BY <3>e
    <3>1. e \in Seq(STRING) /\ m \in Nat /\ m < Cells /\ Cells \in Nat /\ c \in STRING
      <4>1. \A i, j \in Nat : ~(i >= j) => i < j
        OBVIOUS
      <4> QED BY <3>0, <3>e, <3>m, <4>1, Zenon
    <3>2. PICK p \in 1..m + 1 : Edits(InsertAt(e, p, c))
      BY <1>4, <2>2 DEF FormType
    <3> DEFINE left == SubSeq(e, 1, p - 1)
               right == SubSeq(e, p, m)
               one == <<c>>
    <3>3. /\ left \in Seq(STRING) /\ Len(left) = p - 1
          /\ right \in Seq(STRING) /\ Len(right) = m - p + 1
          /\ one \in Seq(STRING) /\ Len(one) = 1
      <4> HIDE DEF e
      <4> QED BY <3>1, <3>2 DEF e
    <3>4. \A a, b \in Seq(STRING) : a \o b \in Seq(STRING) /\ Len(a \o b) = Len(a) + Len(b)
      OBVIOUS
    <3>6. InsertAt(e, p, c) = left \o one \o right
      BY DEF InsertAt
    <3>7. p \in 1..m + 1
      BY <3>2
    <3>a. m \in Nat
      BY <3>1
    <3> HIDE DEF left, right, one, m, e
    <3> DEFINE both == left \o one
    <3>8. both \in Seq(STRING) /\ Len(both) = (p - 1) + 1
      BY <3>3, <3>4, ZenonT(60)
    <3>b. InsertAt(e, p, c) = both \o right
      BY <3>6
    <3> HIDE DEF both
    <3>c. both \o right \in Seq(STRING) /\ Len(both \o right) = Len(both) + Len(right)
      BY <3>3, <3>4, <3>8
    <3>9. Len(both \o right) = m + 1
      BY <3>3, <3>7, <3>8, <3>a, <3>c
    <3>5. InBuffer(InsertAt(e, p, c))
      BY <3>1, <3>9, <3>b, <3>c DEF InBuffer
    <3> QED BY <2>0, <3>2, <3>5, EditKeeps DEF e
  <2> QED BY <2>1, <2>2
<1>5. ASSUME NEW i, FormChoose(i) PROVE FormGood'
  <2>1. form.open /\ form' = [form EXCEPT !.choice = i, !.error = FALSE] /\ values' = values /\ outcome' = outcome
    BY <1>5 DEF FormChoose
  <2>2. DOMAIN form' = FormFields /\ form'.at = form.at /\ form'.edit = form.edit /\ form'.open
    BY <1>0, <2>1 DEF FormFields
  <2> QED BY <2>1, <2>2 DEF FormGood
<1> QED BY <1>1, <1>2, <1>3, <1>4, <1>5 DEF FormNext

\* A form in order has its type, and what it reports as accepted passes every check.
LEMMA FormMeans == ASSUME FormGood PROVE FormTypeOK /\ (LooksBack => AcceptedIsConsistent)
<1>1. FormTypeOK
  <2>1. Len(<<>>) = 0
    OBVIOUS
  <2>2. form.at \in 1..Len(Fields) /\ Len(form.edit) <= Cells /\ (~form.open => form.edit = <<>>)
    BY DEF FormGood, InBuffer
  <2>3. CASE form.open
    <3>1. outcome = <<>>
      BY <2>3 DEF FormGood
    <3> QED BY <2>1, <2>2, <2>3, <3>1 DEF FormTypeOK
  <2>4. CASE ~form.open
    <3>1. Len(outcome) = 1
      BY <2>4 DEF FormGood
    <3> QED BY <2>2, <2>4, <3>1 DEF FormTypeOK
  <2> QED BY <2>3, <2>4
<1>2. ASSUME LooksBack, outcome = <<TRUE>>, NEW i \in 1..Len(Fields) PROVE Passes(i, values[i], values)
  <2>1. ~form.open
    <3>1. <<TRUE>> # <<>>
      OBVIOUS
    <3> QED BY <1>2, <3>1 DEF FormGood
  <2>2. PassedBefore(Len(Fields) + 1, values)
    BY <1>2, <2>1 DEF FormGood
  <2>3. i < Len(Fields) + 1
    BY FieldCount
  <2> QED BY <1>2, <2>2, <2>3 DEF PassedBefore
<1> QED BY <1>1, <1>2 DEF AcceptedIsConsistent

-----------------------------------------------------------------------------
(* The menus.                                                               *)

MenuFields == {"path", "saved", "at", "input", "bad", "filter", "filtering", "shown", "style", "size", "texts"}
\* What is shown is the item at the cursor of the present view.
Faithful(m) == Shows(m) # <<>> => m.shown = Shows(m)[m.at]
\* Each menu of the path is the one the item it was entered from leads to.
Linked(m) ==
  /\ m.path \in Seq(DOMAIN Menus) /\ m.saved \in Seq(Nat)
  /\ IF m.path = <<>> THEN m.saved = <<>> ELSE Len(m.saved) = Len(m.path) - 1
  /\ \A k \in 1..(Len(m.path) - 1) :
       m.saved[k] \in 1..Len(Menus[m.path[k]]) /\ Menus[m.path[k]][m.saved[k]].sub = m.path[k + 1]
MenuSound(m) == DOMAIN m = MenuFields /\ Linked(m) /\ (m.path # <<>> => Faithful(m))
MenuGood == MenuSound(menu)

\* The rows of a view depend on where the menu is, on how it is shown and on the filter.
SameRows(m, w) ==
  /\ DOMAIN m = MenuFields /\ DOMAIN w = MenuFields
  /\ m.path = w.path /\ m.style = w.style /\ m.size = w.size /\ m.filter = w.filter /\ m.texts = w.texts
LEMMA RowsAre == \A m, w : SameRows(m, w) => Shows(m) = Shows(w) /\ View(m) = View(w) /\ Items(m) = Items(w) /\ Top(m) = Top(w)
BY DEF SameRows, Shows, View, Matching, Items, Top

\* A repaint moves only the cursor, into the rows, and shows its item.
LEMMA DrawIs ==
  ASSUME NEW m, DOMAIN m = MenuFields
  PROVE  /\ SameRows(m, Draw(m)) /\ Draw(m).saved = m.saved /\ Faithful(Draw(m))
         /\ View(m) # "plain" /\ m.at \in 1..Len(Shows(m)) /\ Len(Shows(m)) \in Nat => Draw(m).at = m.at
<1> DEFINE rows == Shows(m)
           at == IF m.at > Len(rows) /\ View(m) # "plain" THEN IF rows = <<>> THEN 1 ELSE Len(rows) ELSE m.at
           shown == IF rows = <<>> THEN Nothing ELSE rows[at]
           d == [m EXCEPT !.at = at, !.shown = shown]
<1>1. Draw(m) = d
  BY DEF Draw
<1>2. m.at \in 1..Len(rows) /\ Len(rows) \in Nat => at = m.at
  OBVIOUS
<1>s. rows # <<>> => shown = rows[at]
  OBVIOUS
<1> HIDE DEF at, rows, shown
<1>3. SameRows(m, d) /\ d.saved = m.saved /\ d.at = at /\ d.shown = shown
  BY DEF SameRows, MenuFields
<1> HIDE DEF d
<1>4. Shows(d) = rows
  BY <1>3, RowsAre DEF rows
<1>5. Faithful(d)
  BY <1>3, <1>4, <1>s DEF Faithful
<1> QED BY <1>1, <1>2, <1>3, <1>5 DEF rows

Grown(m, w) == DOMAIN w = MenuFields /\ w.path = m.path /\ w.saved = m.saved
LEMMA DrawSound == \A m, w : MenuSound(m) /\ Grown(m, w) => MenuSound(Draw(w))
<1> SUFFICES ASSUME NEW m, NEW w, MenuSound(m), Grown(m, w) PROVE MenuSound(Draw(w))
  OBVIOUS
<1>1. /\ SameRows(w, Draw(w)) /\ Draw(w).saved = w.saved /\ Faithful(Draw(w))
  BY DrawIs DEF Grown
<1> QED BY <1>1 DEF MenuSound, Linked, Grown, SameRows

LEMMA RefreshedSound ==
  /\ \A m, w : MenuSound(m) /\ Grown(m, w) => MenuSound(Refreshed(w))
  /\ \A w : DOMAIN w = MenuFields /\ Linked(w) => MenuSound(Refreshed(w))
<1>1. ASSUME NEW w, DOMAIN w = MenuFields, Linked(w) PROVE MenuSound(Refreshed(w))
  <2> DEFINE x == IF View(w) = "list" THEN w ELSE [w EXCEPT !.input = <<>>, !.bad = FALSE]
  <2>1. DOMAIN x = MenuFields /\ x.path = w.path /\ x.saved = w.saved
    BY <1>1 DEF MenuFields
  <2>2. Refreshed(w) = Draw(x)
    BY Zenon DEF Refreshed
  <2> HIDE DEF x
  <2>3. SameRows(x, Draw(x)) /\ Draw(x).saved = x.saved /\ Faithful(Draw(x))
    BY <2>1, DrawIs
  <2> QED BY <1>1, <2>1, <2>2, <2>3 DEF MenuSound, Linked, SameRows
<1>2. ASSUME NEW m, NEW w, MenuSound(m), Grown(m, w) PROVE DOMAIN w = MenuFields /\ Linked(w)
  BY <1>2 DEF MenuSound, Grown, Linked
<1> QED BY <1>1, <1>2

LEMMA ClosedSound == \A m : DOMAIN m = MenuFields => MenuSound(MenuClosed(m)) /\ MenuClosed(m).path = <<>>
<1> SUFFICES ASSUME NEW m, DOMAIN m = MenuFields PROVE MenuSound(MenuClosed(m)) /\ MenuClosed(m).path = <<>>
  OBVIOUS
<1>1. DOMAIN MenuClosed(m) = MenuFields /\ MenuClosed(m).path = <<>> /\ MenuClosed(m).saved = <<>>
  BY DEF MenuClosed, Unfiltered, MenuFields
<1> QED BY <1>1 DEF MenuSound, Linked

\* A sequence without its last.
LEMMA Fronted ==
  ASSUME NEW Z, NEW t \in Seq(Z), t # <<>>
  PROVE  /\ Front(t) \in Seq(Z) /\ Len(Front(t)) = Len(t) - 1 /\ Len(t) \in Nat \ {0}
         /\ \A k \in 1..(Len(t) - 1) : Front(t)[k] = t[k]
         /\ Last(t) = t[Len(t)]
<1>1. Len(t) \in Nat \ {0} /\ Len(t) - 1 \in 0..Len(t)
  OBVIOUS
<1> DEFINE i == Len(t) - 1
<1>2. /\ SubSeq(t, 1, i) \in Seq(Z) /\ Len(SubSeq(t, 1, i)) = i
      /\ \A k \in 1..i : SubSeq(t, 1, i)[k] = t[k]
  <2> HIDE DEF i
  <2>1. i \in 0..Len(t)
    BY <1>1 DEF i
  <2> QED BY <2>1
<1> QED BY <1>1, <1>2 DEF Front, Last

\* The way back: the parent, on the item it was left from, which leads to where it came from.
Returned(m, w) ==
  /\ Len(w.path) = Len(m.path) - 1
  /\ View(w) # "plain" => Items(w)[w.shown].sub = Top(m)

\* The way back is along the path.
LEMMA BackSound ==
  ASSUME NEW m, MenuSound(m), m.path # <<>>
  PROVE  /\ MenuSound(Back(m))
         /\ Back(m).path # <<>> => Returned(m, Back(m))
<1>1. CASE Len(m.path) = 1
  <2>1. Back(m) = MenuClosed(m)
    BY <1>1 DEF Back
  <2> QED BY <2>1, ClosedSound DEF MenuSound
<1>2. CASE Len(m.path) # 1
  <2> DEFINE w == [Unfiltered(m) EXCEPT !.path = Front(@), !.saved = Front(@), !.at = Last(m.saved)]
             x == IF View(w) = "list" THEN w ELSE [w EXCEPT !.input = <<>>, !.bad = FALSE]
             n == Len(m.path)
             p == Front(m.path)
             q == Front(m.saved)
             l == Last(m.saved)
  <2>1. Back(m) = Refreshed(w)
    BY <1>2 DEF Back
  <2>2. DOMAIN m = MenuFields /\ Linked(m) /\ n \in Nat /\ n > 1
    <3>1. DOMAIN m = MenuFields /\ Linked(m) /\ m.path \in Seq(DOMAIN Menus)
      BY DEF MenuSound, Linked
    <3>2. Len(m.path) \in Nat \ {0}
      BY <3>1, Fronted
    <3>3. n \in Nat \ {0} /\ n # 1
      BY <1>2, <3>2
    <3> HIDE DEF n
    <3> QED BY <3>1, <3>3
  <2>3. m.path \in Seq(DOMAIN Menus) /\ m.saved \in Seq(Nat) /\ Len(m.saved) = n - 1
    BY <2>2 DEF Linked
  <2>4. /\ p \in Seq(DOMAIN Menus) /\ Len(p) = n - 1 /\ \A k \in 1..(n - 1) : p[k] = m.path[k]
        /\ Last(m.path) = m.path[n]
    BY <2>3, Fronted
  <2>5. /\ q \in Seq(Nat) /\ Len(q) = n - 2 /\ \A k \in 1..(n - 2) : q[k] = m.saved[k]
        /\ l = m.saved[n - 1]
    <3>1. m.saved # <<>> /\ (n - 1) - 1 = n - 2
      BY <2>2, <2>3
    <3> HIDE DEF n
    <3>2. /\ Front(m.saved) \in Seq(Nat) /\ Len(Front(m.saved)) = Len(m.saved) - 1
          /\ \A k \in 1..(Len(m.saved) - 1) : Front(m.saved)[k] = m.saved[k]
          /\ Last(m.saved) = m.saved[Len(m.saved)]
      BY <2>3, <3>1, Fronted
    <3> QED BY <2>2, <2>3, <3>1, <3>2
  <2>6. /\ l \in 1..Len(Menus[m.path[n - 1]]) /\ Menus[m.path[n - 1]][l].sub = m.path[n]
        /\ Menus[m.path[n - 1]] \in Seq([run : BOOLEAN, off : BOOLEAN, sub : DOMAIN Menus \cup {""}])
    <3>1. n - 1 \in 1..(n - 1) /\ (n - 1) + 1 = n /\ n - 1 \in 1..n
      BY <2>2
    <3>2. m.path[n - 1] \in DOMAIN Menus
      BY <2>3, <3>1
    <3> QED BY <2>2, <2>5, <3>1, <3>2, MenuAssumption DEF Linked
  <2> HIDE DEF p, q, l, n
  <2>7. /\ DOMAIN w = MenuFields /\ w.path = p /\ w.saved = q /\ w.at = l /\ w.filter = NoFilter
    BY <2>2 DEF Unfiltered, MenuFields, p, q, l
  <2> HIDE DEF w
  <2>8. Linked(w)
    <3>1. w.path # <<>> /\ Len(w.saved) = Len(w.path) - 1
      BY <2>2, <2>4, <2>5, <2>7
    <3>2. ASSUME NEW k \in 1..(Len(w.path) - 1)
          PROVE  w.saved[k] \in 1..Len(Menus[w.path[k]]) /\ Menus[w.path[k]][w.saved[k]].sub = w.path[k + 1]
      <4>1. k \in 1..(n - 2) /\ k \in 1..(n - 1) /\ k + 1 \in 1..(n - 1)
        BY <2>2, <2>4, <2>7
      <4>2. w.saved[k] = m.saved[k] /\ w.path[k] = m.path[k] /\ w.path[k + 1] = m.path[k + 1]
        BY <2>4, <2>5, <2>7, <4>1
      <4> QED BY <2>2, <4>1, <4>2 DEF Linked, n
    <3> QED BY <2>4, <2>5, <2>7, <3>1, <3>2 DEF Linked
  <2>9. DOMAIN x = MenuFields /\ x.path = p /\ x.at = l /\ x.filter = NoFilter /\ x.style = w.style /\ x.size = w.size
    BY <2>7 DEF MenuFields
  <2>10. Refreshed(w) = Draw(x)
    BY Zenon DEF Refreshed
  <2> HIDE DEF x
  <2>11. MenuSound(Draw(x)) /\ SameRows(x, Draw(x)) /\ Faithful(Draw(x))
    BY <2>7, <2>8, <2>9, <2>10, RefreshedSound, DrawIs
  <2>12. Top(x) = m.path[n - 1] /\ Items(x) = Menus[m.path[n - 1]]
    <3>1. Last(p) = m.path[n - 1]
      BY <2>2, <2>4 DEF Last
    <3> QED BY <2>9, <3>1 DEF Top, Items
  <2>13. ASSUME View(x) # "plain" PROVE Items(Draw(x))[Draw(x).shown].sub = m.path[n]
    <3>1. Shows(x) = Numbers(Len(Items(x)))
      <4>1. View(x) = "list" \/ View(x) = "framed"
        BY <2>13 DEF View
      <4>2. Matching(x) = Numbers(Len(Items(x)))
        BY <2>9 DEF Matching, Filtered
      <4> QED BY <4>1, <4>2 DEF Shows
    <3>2. Len(Items(x)) \in Nat /\ l \in 1..Len(Items(x))
      <4> DEFINE items == Menus[m.path[n - 1]]
                 Q == [run : BOOLEAN, off : BOOLEAN, sub : DOMAIN Menus \cup {""}]
      <4>1. items \in Seq(Q) /\ l \in 1..Len(items) /\ Items(x) = items
        BY <2>6, <2>12
      <4> HIDE DEF items, Q
      <4> QED BY <4>1
    <3>3. Len(Shows(x)) \in Nat /\ l \in 1..Len(Shows(x)) /\ Shows(x)[l] = l /\ Shows(x) # <<>>
      BY <3>1, <3>2 DEF Numbers
    <3>4. Draw(x).at = l
      BY <2>9, <2>13, <3>3, DrawIs
    <3>5. Shows(Draw(x)) = Shows(x) /\ Items(Draw(x)) = Items(x)
      BY <2>11, RowsAre
    <3>6. Draw(x).shown = l
      BY <2>11, <3>3, <3>4, <3>5 DEF Faithful
    <3> QED BY <2>6, <2>12, <3>5, <3>6
  <2>14. View(Draw(x)) = View(x) /\ Draw(x).path = p
    BY <2>9, <2>11, RowsAre DEF SameRows
  <2>15. Top(m) = m.path[n]
    BY <2>4 DEF Top
  <2>16. Returned(m, Draw(x))
    BY <2>4, <2>13, <2>14, <2>15 DEF Returned, n
  <2> QED BY <2>1, <2>10, <2>11, <2>16
<1> QED BY <1>1, <1>2

\* A descent is along an item that leads on.
LEMMA DescendedSound ==
  ASSUME NEW m, MenuSound(m), m.path # <<>>, NEW n, ~Refused(m, n), ~Items(m)[n].run
  PROVE  MenuSound(Descended(m, n)) /\ Len(Descended(m, n).path) = Len(m.path) + 1
<1> DEFINE d == Len(m.path)
           sub == Items(m)[n].sub
           p == Append(m.path, sub)
           q == Append(m.saved, n)
           w == [Unfiltered(m) EXCEPT !.path = Append(@, Items(m)[n].sub), !.saved = Append(@, n), !.at = 1]
<1>1. /\ DOMAIN m = MenuFields /\ Linked(m) /\ m.path \in Seq(DOMAIN Menus) /\ m.saved \in Seq(Nat)
      /\ d \in Nat \ {0} /\ Len(m.saved) = d - 1 /\ Items(m) = Menus[m.path[d]] /\ m.path[d] \in DOMAIN Menus
  <2>1. DOMAIN m = MenuFields /\ Linked(m) /\ m.path \in Seq(DOMAIN Menus) /\ m.saved \in Seq(Nat) /\ Len(m.saved) = d - 1
    BY DEF MenuSound, Linked
  <2>2. d \in Nat \ {0} /\ Last(m.path) = m.path[d]
    BY <2>1, Fronted
  <2>3. m.path[d] \in DOMAIN Menus
    <3>1. d \in 1..Len(m.path)
      BY <2>2
    <3> HIDE DEF d
    <3> QED BY <2>1, <3>1
  <2> QED BY <2>1, <2>2, <2>3 DEF Items, Top
<1>2. n \in 1..Len(Menus[m.path[d]]) /\ sub \in DOMAIN Menus /\ n \in Nat
  <2> DEFINE items == Menus[m.path[d]]
             Q == [run : BOOLEAN, off : BOOLEAN, sub : DOMAIN Menus \cup {""}]
  <2>1. items \in Seq(Q) /\ items = Items(m)
    BY <1>1, MenuAssumption
  <2> HIDE DEF items
  <2>2. n \in 1..Len(items) /\ sub # ""
    BY <2>1 DEF Refused
  <2> HIDE DEF Q
  <2>3. Len(items) \in Nat /\ items[n] \in Q
    <3>1. n \in 1..Len(items)
      BY <2>2
    <3>2. items \in Seq(Q)
      BY <2>1
    <3> QED BY <3>1, <3>2
  <2>4. items[n].sub \in DOMAIN Menus \cup {""}
    BY <2>3 DEF Q
  <2>5. n \in Nat
    <3> DEFINE c == Len(items)
    <3>1. c \in Nat /\ n \in 1..c
      BY <2>2, <2>3
    <3> HIDE DEF c
    <3> QED BY <3>1
  <2> QED BY <2>1, <2>2, <2>4, <2>5 DEF items
<1> HIDE DEF d, sub
<1>3. p \in Seq(DOMAIN Menus) /\ Len(p) = d + 1 /\ p[d + 1] = sub /\ \A k \in 1..d : p[k] = m.path[k]
  BY <1>1, <1>2 DEF d
<1>4. q \in Seq(Nat) /\ Len(q) = d /\ q[d] = n /\ \A k \in 1..(d - 1) : q[k] = m.saved[k]
  <2> DEFINE z == m.saved
  <2>1. z \in Seq(Nat) /\ Len(z) = d - 1 /\ d \in Nat \ {0}
    BY <1>1
  <2> HIDE DEF z
  <2>2. Append(z, n) \in Seq(Nat) /\ Len(Append(z, n)) = d /\ Append(z, n)[d] = n
        /\ \A k \in 1..(d - 1) : Append(z, n)[k] = z[k]
    BY <1>2, <2>1
  <2> QED BY <2>2 DEF z
<1> HIDE DEF p, q
<1>5. DOMAIN w = MenuFields /\ w.path = p /\ w.saved = q
  BY <1>1 DEF Unfiltered, MenuFields, p, q, sub
<1>6. Descended(m, n) = Refreshed(w)
  BY DEF Descended
<1> HIDE DEF w
<1>7. Linked(w)
  <2>1. ASSUME NEW k \in 1..(Len(w.path) - 1)
        PROVE  w.saved[k] \in 1..Len(Menus[w.path[k]]) /\ Menus[w.path[k]][w.saved[k]].sub = w.path[k + 1]
    <3>1. CASE k = d
      <4>1. q[k] = n /\ p[k + 1] = sub /\ p[k] = m.path[d] /\ Items(m) = Menus[m.path[d]]
        BY <1>1, <1>3, <1>4, <3>1
      <4> QED BY <1>2, <1>5, <4>1 DEF sub
    <3>2. CASE k # d
      <4>1. k \in 1..(d - 1) /\ k \in 1..d /\ k + 1 \in 1..d
        BY <1>1, <1>3, <1>5, <3>2
      <4>2. q[k] = m.saved[k] /\ p[k + 1] = m.path[k + 1] /\ p[k] = m.path[k]
        BY <1>3, <1>4, <4>1
      <4> QED BY <1>1, <1>5, <4>1, <4>2 DEF Linked, d
    <3> QED BY <3>1, <3>2
  <2>2. w.path # <<>> /\ Len(w.saved) = Len(w.path) - 1
    BY <1>1, <1>3, <1>4, <1>5
  <2> QED BY <1>3, <1>4, <1>5, <2>1, <2>2 DEF Linked
<1>8. MenuSound(Refreshed(w))
  BY <1>5, <1>7, RefreshedSound
<1>9. Refreshed(w).path = p
  <2> DEFINE x == IF View(w) = "list" THEN w ELSE [w EXCEPT !.input = <<>>, !.bad = FALSE]
  <2>1. DOMAIN x = MenuFields /\ x.path = p
    BY <1>5 DEF MenuFields
  <2>2. Refreshed(w) = Draw(x)
    BY Zenon DEF Refreshed
  <2> HIDE DEF x
  <2> QED BY <2>1, <2>2, DrawIs DEF SameRows
<1> QED BY <1>3, <1>6, <1>8, <1>9 DEF d

\* A step of the menu leaves it sound, and a step up returns to the parent.
Leads(w) ==
  MenuSound(w) /\ (w.path # <<>> /\ Len(w.path) < Len(menu.path) => Returned(menu, w))

LEMMA SamePathLeads == ASSUME MenuGood, NEW w, MenuSound(w), w.path = menu.path PROVE Leads(w)
<1>1. Len(menu.path) \in Nat
  BY DEF MenuGood, MenuSound, Linked
<1> QED BY <1>1 DEF Leads

LEMMA ClosedLeads == ASSUME NEW m, MenuSound(m) PROVE Leads(MenuClosed(m))
BY ClosedSound DEF Leads, MenuSound

LEMMA BackLeads == ASSUME MenuGood, MenuOpened PROVE Leads(Back(menu))
BY BackSound DEF MenuGood, MenuOpened, Leads

\* What becomes of a choice.
LEMMA ChoosesLeads ==
  ASSUME MenuGood, MenuOpened, NEW m, MenuSound(m), Grown(menu, m), NEW n,
         NEW refused, Leads(refused), Chooses(m, n, refused)
  PROVE  Leads(menu')
<1>0. m.path = menu.path /\ m.path # <<>> /\ m.path \in Seq(DOMAIN Menus)
  BY DEF Grown, MenuOpened, MenuSound, Linked
<1>1. Leads(Back(m))
  <2>1. Top(m) = Top(menu)
    BY <1>0 DEF Top
  <2>2. MenuSound(Back(m)) /\ (Back(m).path # <<>> => Returned(m, Back(m)))
    BY <1>0, BackSound
  <2> QED BY <1>0, <2>1, <2>2 DEF Leads, Returned
<1>2. ASSUME ~Refused(m, n), ~Items(m)[n].run PROVE Leads(Descended(m, n))
  <2>1. MenuSound(Descended(m, n)) /\ Len(Descended(m, n).path) = Len(m.path) + 1
    BY <1>0, <1>2, DescendedSound
  <2>2. Len(m.path) \in Nat
    BY <1>0
  <2> QED BY <1>0, <2>1, <2>2 DEF Leads
<1>3. Leads(MenuClosed(m))
  BY ClosedLeads
<1> QED BY <1>1, <1>2, <1>3 DEF Chooses

LEMMA PathShown ==
  ASSUME MenuGood, NEW x, Grown(menu, x)
  PROVE  Leads(Draw(x)) /\ Leads(Refreshed(x))
<1>1. MenuSound(Draw(x)) /\ Draw(x).path = menu.path
  BY DrawSound, DrawIs DEF MenuGood, Grown, SameRows
<1>2. MenuSound(Refreshed(x))
  BY RefreshedSound DEF MenuGood
<1>3. Refreshed(x).path = menu.path
  <2> DEFINE y == IF View(x) = "list" THEN x ELSE [x EXCEPT !.input = <<>>, !.bad = FALSE]
  <2>1. DOMAIN y = MenuFields /\ y.path = menu.path
    BY DEF MenuFields, Grown
  <2>2. Refreshed(x) = Draw(y)
    BY Zenon DEF Refreshed
  <2> HIDE DEF y
  <2> QED BY <2>1, <2>2, DrawIs DEF SameRows
<1> QED BY <1>1, <1>2, <1>3, SamePathLeads

\* Typing changes the number line only.
LEMMA TypedSound ==
  ASSUME MenuGood, NEW i, NEW b, NEW w,
         w \in {[menu EXCEPT !.input = i, !.bad = b], [menu EXCEPT !.input = i], [menu EXCEPT !.bad = b]}
  PROVE  MenuSound(w) /\ Grown(menu, w) /\ Leads(w)
<1>1. DOMAIN menu = MenuFields
  BY DEF MenuGood, MenuSound
<1>2. SameRows(menu, w) /\ w.saved = menu.saved /\ w.at = menu.at /\ w.shown = menu.shown
  BY <1>1 DEF SameRows, MenuFields
<1>3. Shows(w) = Shows(menu)
  BY <1>2, RowsAre
<1>4. MenuSound(w) /\ Grown(menu, w) /\ w.path = menu.path
  BY <1>2, <1>3 DEF MenuGood, MenuSound, Linked, Faithful, Grown, SameRows
<1> QED BY <1>4, SamePathLeads

LEMMA OneLong == ASSUME NEW Z, NEW x \in Z PROVE <<x>> \in Seq(Z) /\ Len(<<x>>) = 1 /\ Last(<<x>>) = x
<1>1. <<x>> \in Seq(Z)
  OBVIOUS
<1>2. Len(<<x>>) = 1
  OBVIOUS
<1>3. <<x>>[1] = x
  OBVIOUS
<1> QED BY <1>1, <1>2, <1>3 DEF Last

LEMMA TopLinked == \A w : w.path = <<TopMenu>> /\ w.saved = <<>> => Linked(w)
<1> SUFFICES ASSUME NEW w, w.path = <<TopMenu>>, w.saved = <<>> PROVE Linked(w)
  OBVIOUS
<1>1. TopMenu \in DOMAIN Menus
  BY MenuAssumption
<1>2. w.path \in Seq(DOMAIN Menus) /\ Len(w.path) = 1
  BY <1>1, OneLong
<1>3. w.path # <<>>
  OBVIOUS
<1>4. w.saved \in Seq(Nat)
  OBVIOUS
<1>5. Len(w.saved) = 0
  OBVIOUS
<1>6. 1..(Len(w.path) - 1) = {}
  <2>1. \A n : n = 1 => 1..(n - 1) = {}
    OBVIOUS
  <2> QED BY <1>2, <2>1
<1>7. Len(w.saved) = Len(w.path) - 1
  <2>1. \A a, b : a = 0 /\ b = 1 => a = b - 1
    OBVIOUS
  <2> QED BY <1>2, <1>5, <2>1
<1> QED BY <1>2, <1>3, <1>4, <1>6, <1>7, Zenon DEF Linked

\* Every key keeps the path linked and returns along it.
LEMMA MenuKeeps == ASSUME MenuGood, MenuNext PROVE Leads(menu')
<1>0. MenuSound(menu) /\ DOMAIN menu = MenuFields
  BY DEF MenuGood, MenuSound
<1>a. ASSUME NEW x, Grown(menu, x), MenuIs(Draw(x)) \/ MenuIs(Refreshed(x)) PROVE Leads(menu')
  BY <1>a, PathShown DEF MenuIs
<1>1. CASE MenuOpen
  <2> DEFINE w == [menu EXCEPT !.path = <<TopMenu>>]
  <2>1. menu.path = <<>> /\ menu' = Refreshed(w) /\ menu.saved = <<>>
    BY <1>0, <1>1 DEF MenuOpen, MenuOpened, MenuSound, Linked
  <2>2. DOMAIN w = MenuFields /\ w.path = <<TopMenu>> /\ w.saved = <<>>
    BY <1>0, <2>1 DEF MenuFields
  <2> HIDE DEF w
  <2>3. Linked(w) /\ Len(<<TopMenu>>) = 1
    BY <2>2, TopLinked, OneLong
  <2>5. MenuSound(Refreshed(w))
    BY <2>2, <2>3, RefreshedSound
  <2>6. ~(Len(menu'.path) < Len(menu.path))
    <3>1. menu'.path \in Seq(DOMAIN Menus)
      BY <2>1, <2>5 DEF MenuSound, Linked
    <3>2. Len(menu'.path) \in Nat
      BY <3>1
    <3> QED BY <2>1, <2>3, <3>2
  <2> QED BY <2>1, <2>5, <2>6 DEF Leads
<1>2. ASSUME NEW i, MenuSelect(i) PROVE Leads(menu')
  <2> DEFINE j == IF View(menu) = "list" THEN menu.input ELSE <<>>
             w == [menu EXCEPT !.at = i, !.bad = FALSE, !.input = j]
  <2>1. MenuIs(Draw(w))
    <3>1. [menu EXCEPT !.at = i, !.bad = FALSE, !.input = IF View(menu) = "list" THEN @ ELSE <<>>] = w
      BY <1>0 DEF MenuFields
    <3> QED BY <1>2, <3>1, Zenon DEF MenuSelect
  <2>2. Grown(menu, w)
    <3> HIDE DEF j
    <3> QED BY <1>0 DEF Grown, MenuFields
  <2> QED BY <1>a, <2>1, <2>2
<1>3. CASE MenuEnter
  <2> DEFINE cleared == [menu EXCEPT !.input = <<>>, !.bad = FALSE]
             wrong == [menu EXCEPT !.bad = TRUE]
             done == [menu EXCEPT !.filtering = FALSE, !.at = 1]
  <2>1. /\ MenuSound(cleared) /\ Grown(menu, cleared) /\ Grown(menu, wrong) /\ Grown(menu, menu)
    <3>1. MenuSound(cleared) /\ Grown(menu, cleared)
      BY TypedSound
    <3>2. Grown(menu, wrong)
      BY TypedSound
    <3> QED BY <1>0, <3>1, <3>2 DEF Grown
  <2>2. Grown(menu, done)
    BY <1>0 DEF Grown, MenuFields
  <2>3. Leads(Draw(wrong)) /\ Leads(Refreshed(cleared)) /\ Leads(Draw(done))
    BY <2>1, <2>2, PathShown
  <2>4. MenuOpened
    BY <1>3 DEF MenuEnter
  <2>5. \/ MenuIs(Draw(done)) \/ MenuIs(Draw(wrong)) \/ MenuIs(Refreshed(cleared))
        \/ \E n : Chooses(menu, n, Draw(wrong))
        \/ \E n : Chooses(cleared, n, Refreshed(cleared))
    BY <1>3, Zenon DEF MenuEnter
  <2> HIDE DEF cleared, wrong, done
  <2>6. CASE \E n : Chooses(menu, n, Draw(wrong))
    BY <1>0, <2>1, <2>3, <2>4, <2>6, ChoosesLeads
  <2>7. CASE \E n : Chooses(cleared, n, Refreshed(cleared))
    BY <2>1, <2>3, <2>4, <2>7, ChoosesLeads
  <2> QED BY <2>3, <2>5, <2>6, <2>7 DEF MenuIs
<1>4. CASE MenuEscape
  <2> DEFINE w == [Unfiltered(menu) EXCEPT !.at = 1, !.bad = FALSE]
  <2>1. MenuOpened /\ (MenuIs(Draw(w)) \/ MenuIs(Back(menu)))
    BY <1>4 DEF MenuEscape
  <2>2. Grown(menu, w)
    BY <1>0 DEF Grown, Unfiltered, MenuFields
  <2> HIDE DEF w
  <2> QED BY <1>a, <2>1, <2>2, BackLeads DEF MenuIs
<1>5. CASE MenuCancel
  BY <1>0, <1>5, ClosedLeads DEF MenuCancel, MenuIs
<1>6. ASSUME NEW d, MenuDigit(d) PROVE Leads(menu')
  <2>1. menu' \in {[menu EXCEPT !.bad = TRUE], [menu EXCEPT !.input = Append(menu.input, d)]}
    BY <1>0, <1>6 DEF MenuDigit, MenuIs, MenuFields
  <2> QED BY <2>1, TypedSound
<1>7. CASE MenuLetter
  BY <1>7, TypedSound DEF MenuLetter, MenuIs
<1>8. CASE MenuErase
  <2>1. menu' \in {[menu EXCEPT !.bad = FALSE], [menu EXCEPT !.input = Front(menu.input)]}
    BY <1>0, <1>8 DEF MenuErase, MenuIs, MenuFields
  <2> QED BY <2>1, TypedSound
<1>9. CASE MenuClearLine
  BY <1>9, TypedSound DEF MenuClearLine, MenuIs
<1>10. CASE MenuFilter
  <2>1. Grown(menu, [menu EXCEPT !.filtering = TRUE, !.bad = FALSE])
    BY <1>0 DEF Grown, MenuFields
  <2> QED BY <1>10, <1>a, <2>1 DEF MenuFilter
<1>11. ASSUME NEW f, MenuFilterIs(f) PROVE Leads(menu')
  <2>1. Grown(menu, [menu EXCEPT !.filter = f, !.at = 1, !.bad = FALSE])
    BY <1>0 DEF Grown, MenuFields
  <2> QED BY <1>11, <1>a, <2>1 DEF MenuFilterIs
<1>12. ASSUME NEW size, MenuResize(size) PROVE Leads(menu')
  <2>1. Grown(menu, [menu EXCEPT !.size = size])
    BY <1>0 DEF Grown, MenuFields
  <2> QED BY <1>12, <1>a, <2>1 DEF MenuResize
<1>13. ASSUME NEW t, MenuDescribe(t) PROVE Leads(menu')
  <2>1. Grown(menu, [menu EXCEPT !.texts = t])
    BY <1>0 DEF Grown, MenuFields
  <2> QED BY <1>13, <1>a, <2>1 DEF MenuDescribe
<1>14. ASSUME NEW n, MenuChoose(n) PROVE Leads(menu')
  <2>1. MenuOpened /\ Chooses(menu, n, menu) /\ Grown(menu, menu) /\ Leads(menu)
    BY <1>0, <1>14, SamePathLeads DEF MenuChoose, Grown
  <2> QED BY <1>0, <2>1, ChoosesLeads
<1> QED BY <1>1, <1>2, <1>3, <1>4, <1>5, <1>6, <1>7, <1>8, <1>9, <1>10, <1>11, <1>12, <1>13, <1>14 DEF MenuNext

LEMMA MenuStarts == ASSUME MenuInit PROVE MenuGood
<1>1. PICK style : menu = Refreshed([MenuNone EXCEPT !.style = style, !.path = <<TopMenu>>])
  BY DEF MenuInit
<1> DEFINE w == [MenuNone EXCEPT !.style = style, !.path = <<TopMenu>>]
<1>2. DOMAIN w = MenuFields /\ w.path = <<TopMenu>> /\ w.saved = <<>>
  BY DEF MenuNone, MenuFields
<1> HIDE DEF w
<1>3. Linked(w)
  BY <1>2, TopLinked
<1> QED BY <1>1, <1>2, <1>3, RefreshedSound DEF MenuGood, w

\* What runs is what was shown or typed.
LEMMA MenuActs == ASSUME MenuGood, MenuNext PROVE MenuGood' /\ RunsWhatIsShown /\ ParentIsRestored
<1>1. Leads(menu')
  BY MenuKeeps
<1>2. MenuGood'
  BY <1>1 DEF Leads, MenuGood
<1>3. ParentIsRestored
  <2>1. SUFFICES ASSUME menu'.path # <<>>, Len(menu'.path) < Len(menu.path), View(menu') # "plain"
                 PROVE  Items(menu')[menu'.shown].sub = Top(menu)
    BY DEF ParentIsRestored
  <2> QED BY <1>1, <2>1 DEF Leads, Returned
<1>4. RunsWhatIsShown
  <2>1. SUFFICES ASSUME MenuEnter, ran' # ran
                 PROVE  LET r == Last(ran')
       IN  /\ r.menu = Top(menu) /\ Runs(Items(menu)[r.item])
           /\ r.item = IF View(menu) = "list" \/ menu.input = <<>> THEN menu.shown
                       ELSE Value(menu.input)
    BY DEF RunsWhatIsShown
  <2> DEFINE cursor == View(menu) = "list" \/ (View(menu) = "framed" /\ menu.input = <<>> /\ ~menu.bad)
             cleared == [menu EXCEPT !.input = <<>>, !.bad = FALSE]
             refused == Draw([menu EXCEPT !.bad = TRUE])
             number == Value(menu.input)
             highlighted == Shows(menu)[menu.at]
             here == View(menu) = "list" \/ menu.input = <<>>
  <2>2. PICK m, n, x : /\ Chooses(m, n, x)
                       /\ \/ m = menu /\ n = highlighted /\ cursor /\ Shows(menu) # <<>>
                          \/ m = cleared /\ n = number /\ ~cursor /\ menu.input # <<>>
    <3> DEFINE rows == Shows(menu)
    <3>1. CASE Filtering \/ (cursor /\ rows = <<>>) \/ (~cursor /\ (menu.bad \/ menu.input = <<>>))
      BY <2>1, <3>1 DEF MenuEnter, MenuIs, Filtering
    <3>2. CASE ~Filtering /\ cursor /\ rows # <<>>
      <4>1. Chooses(menu, highlighted, refused)
        BY <2>1, <3>2 DEF MenuEnter
      <4> QED BY <3>2, <4>1
    <3>3. CASE ~Filtering /\ ~cursor /\ ~menu.bad /\ menu.input # <<>>
      <4>1. Chooses(cleared, number, Refreshed(cleared))
        BY <2>1, <3>3 DEF MenuEnter
      <4> QED BY <3>3, <4>1
    <3>4. Filtering => cursor
      BY DEF Filtering
    <3> HIDE DEF cursor
    <3> QED BY <3>1, <3>2, <3>3, <3>4
  <2>3. n # 0 /\ ~Refused(m, n) /\ Items(m)[n].run /\ ran' = <<[menu |-> Top(m), item |-> n]>>
    BY <2>1, <2>2 DEF Chooses
  <2>4. ~Items(m)[n].off
    BY <2>3 DEF Refused
  <2>5. Top(m) = Top(menu) /\ Items(m) = Items(menu)
    <3>1. DOMAIN menu = MenuFields
      BY DEF MenuGood, MenuSound
    <3>2. cleared.path = menu.path
      BY <3>1 DEF MenuFields
    <3> QED BY <2>2, <3>2 DEF Top, Items
  <2>6. n = IF here THEN menu.shown ELSE number
    <3>1. MenuOpened
      BY <2>1 DEF MenuEnter
    <3>2. Shows(menu) # <<>> => menu.shown = highlighted
      BY <3>1 DEF MenuGood, MenuSound, Faithful, MenuOpened
    <3>3. cursor => here
      OBVIOUS
    <3>4. ~cursor /\ menu.input # <<>> => ~here
      OBVIOUS
    <3> HIDE DEF cursor, here, number, highlighted
    <3> QED BY <2>2, <3>2, <3>3, <3>4
  <2> DEFINE r == [menu |-> Top(menu), item |-> n]
  <2>7. Last(ran') = r
    <3>1. ran' = <<r>>
      BY <2>3, <2>5
    <3> HIDE DEF r
    <3> QED BY <3>1, OneLong
  <2>8. r.menu = Top(menu) /\ r.item = n
    OBVIOUS
  <2> HIDE DEF r
  <2> QED BY <2>3, <2>4, <2>5, <2>6, <2>7, <2>8 DEF Runs
<1> QED BY <1>2, <1>3, <1>4

LEMMA DepthPositive == MenuDepth \in Nat /\ 1 <= MenuDepth
<1>1. MenuDepth \in Nat \ {0}
  BY MenuAssumption, Zenon
<1> QED BY <1>1

\* The rows of an open menu are a sequence.
LEMMA RowsCounted ==
  ASSUME NEW n \in Nat, NEW f, f = [k \in 1..n |-> f[k]]
  PROVE  Len(f) \in Nat /\ (f # <<>> => Len(f) # 0)
<1> DEFINE Z == {f[k] : k \in 1..n}
<1>1. f \in [1..n -> Z]
  OBVIOUS
<1>2. f \in Seq(Z)
  BY <1>1
<1> HIDE DEF Z
<1> QED BY <1>2

LEMMA FilteredCounted ==
  ASSUME NEW c \in Nat, NEW filter, NEW hits
  PROVE  LET f == Filtered(c, filter, hits) IN Len(f) \in Nat /\ (f # <<>> => Len(f) # 0)
<1> DEFINE f == Filtered(c, filter, hits)
           left == {i \in 1..c : filter \in hits[i]}
<1>1. CASE filter = NoFilter
  <2>1. f = [i \in 1..c |-> i]
    BY <1>1 DEF Filtered, Numbers
  <2>2. f = [i \in 1..c |-> f[i]]
    BY <2>1
  <2> HIDE DEF f
  <2>3. Len(f) \in Nat /\ (f # <<>> => Len(f) # 0)
    BY <2>2, RowsCounted
  <2> QED BY <2>3 DEF f
<1>2. CASE filter # NoFilter
  <2> DEFINE n == Cardinality(left)
  <2>1. IsFiniteSet(1..c)
    BY FS_Interval
  <2>2. IsFiniteSet(left)
    BY <2>1, FS_Subset
  <2>3. n \in Nat
    BY <2>2, FS_CardinalityType
  <2>4. f = [k \in 1..n |-> CHOOSE i \in left : Cardinality({j \in left : j <= i}) = k]
    BY <1>2 DEF Filtered
  <2> DEFINE g == [k \in 1..n |-> CHOOSE i \in left : Cardinality({j \in left : j <= i}) = k]
  <2> HIDE DEF n, left
  <2>5. g = [k \in 1..n |-> g[k]]
    <3>1. DOMAIN g = 1..n /\ g = [k \in DOMAIN g |-> g[k]]
      OBVIOUS
    <3> HIDE DEF g
    <3> QED BY <3>1
  <2>6. Len(f) \in Nat /\ (f # <<>> => Len(f) # 0)
    <3> HIDE DEF f, g
    <3>1. Len(g) \in Nat /\ (g # <<>> => Len(g) # 0)
      BY <2>3, <2>5, RowsCounted
    <3> QED BY <2>4, <3>1 DEF g
  <2> QED BY <2>6 DEF f
<1> QED BY <1>1, <1>2

LEMMA ShowsCounted ==
  ASSUME NEW m, m.path \in Seq(DOMAIN Menus), m.path # <<>>
  PROVE  Len(Shows(m)) \in Nat /\ (Shows(m) # <<>> => Len(Shows(m)) # 0)
<1> DEFINE Q == [run : BOOLEAN, off : BOOLEAN, sub : DOMAIN Menus \cup {""}]
           c == Len(Items(m))
<1>1. Top(m) \in DOMAIN Menus
  <2>1. Len(m.path) \in Nat \ {0} /\ Last(m.path) = m.path[Len(m.path)]
    BY Fronted
  <2> DEFINE n == Len(m.path)
  <2>2. n \in 1..Len(m.path)
    BY <2>1
  <2> HIDE DEF n
  <2>3. m.path[n] \in DOMAIN Menus
    BY <2>2
  <2> QED BY <2>1, <2>3 DEF Top, n
<1>2. Items(m) \in Seq(Q)
  BY <1>1, MenuAssumption DEF Items
<1> HIDE DEF Q
<1>3. c \in Nat
  BY <1>2
<1> HIDE DEF c
<1>4. Numbers(c) = Filtered(c, NoFilter, <<>>)
  BY DEF Filtered
<1>5. \E filter, hits : Shows(m) = Filtered(c, filter, hits) \/ Shows(m) = <<>>
  BY <1>4, Zenon DEF Shows, Matching, c
<1>6. PICK filter, hits : Shows(m) = Filtered(c, filter, hits) \/ Shows(m) = <<>>
  BY <1>5
<1>7. Len(<<>>) \in Nat
  OBVIOUS
<1>8. Len(Filtered(c, filter, hits)) \in Nat /\ (Filtered(c, filter, hits) # <<>> => Len(Filtered(c, filter, hits)) # 0)
  BY <1>3, FilteredCounted, Zenon
<1> QED BY <1>6, <1>7, <1>8

\* The cursor is a position, the number line short and the path no deeper than allowed;
\* in a view with rows the cursor is on one of them.
Situated(m) ==
  /\ m.at \in Nat \ {0} /\ m.input \in Seq(Digits) /\ Len(m.input) <= InputLimit
  /\ Len(m.path) <= MenuDepth
AtItem(m) == m.path # <<>> /\ View(m) # "plain" => m.at \in 1..Len(Shows(m)) \/ Shows(m) = <<>>
MenuFine == Situated(menu) /\ AtItem(menu)

LEMMA DrawPlaced ==
  ASSUME NEW m, DOMAIN m = MenuFields, m.path \in Seq(DOMAIN Menus), m.path # <<>>, Situated(m)
  PROVE  Situated(Draw(m)) /\ AtItem(Draw(m)) /\ Draw(m).path = m.path
<1> DEFINE rows == Shows(m)
           n == Len(rows)
           at == IF m.at > n /\ View(m) # "plain" THEN IF rows = <<>> THEN 1 ELSE n ELSE m.at
           shown == IF rows = <<>> THEN Nothing ELSE rows[at]
           d == [m EXCEPT !.at = at, !.shown = shown]
<1>1. Draw(m) = d
  BY DEF Draw
<1>2. n \in Nat /\ (rows # <<>> => n # 0)
  BY ShowsCounted
<1> HIDE DEF rows
<1> HIDE DEF n
<1>3. at \in Nat \ {0} /\ (View(m) # "plain" => at \in 1..n \/ rows = <<>>)
  BY <1>2 DEF Situated
<1> HIDE DEF at, shown
<1>4. SameRows(m, d) /\ d.at = at /\ d.input = m.input
  BY DEF SameRows, MenuFields
<1> HIDE DEF d
<1>5. Shows(d) = rows /\ View(d) = View(m) /\ d.path = m.path
  BY <1>4, RowsAre DEF rows, SameRows
<1>6. Situated(d)
  BY <1>3, <1>4, <1>5 DEF Situated
<1>7. AtItem(d)
  BY <1>3, <1>4, <1>5 DEF AtItem, n
<1> QED BY <1>1, <1>5, <1>6, <1>7

LEMMA RefreshedPlaced ==
  ASSUME NEW m, DOMAIN m = MenuFields, m.path \in Seq(DOMAIN Menus), m.path # <<>>, Situated(m)
  PROVE  Situated(Refreshed(m)) /\ AtItem(Refreshed(m))
<1> DEFINE x == IF View(m) = "list" THEN m ELSE [m EXCEPT !.input = <<>>, !.bad = FALSE]
<1>1. Refreshed(m) = Draw(x)
  BY Zenon DEF Refreshed
<1>2. DOMAIN x = MenuFields /\ x.path = m.path /\ x.at = m.at /\ (x.input = m.input \/ x.input = <<>>)
  BY DEF MenuFields
<1> HIDE DEF x
<1>3. <<>> \in Seq(Digits) /\ Len(<<>>) <= InputLimit
  BY DEF InputLimit
<1>4. Situated(x)
  BY <1>2, <1>3 DEF Situated
<1> QED BY <1>1, <1>2, <1>4, DrawPlaced

LEMMA ClosedPlaced ==
  ASSUME NEW m, DOMAIN m = MenuFields PROVE Situated(MenuClosed(m)) /\ AtItem(MenuClosed(m))
<1>1. /\ MenuClosed(m).path = <<>> /\ MenuClosed(m).at = 1 /\ MenuClosed(m).input = <<>>
  BY DEF MenuClosed, Unfiltered, MenuFields
<1>2. <<>> \in Seq(Digits) /\ 1 \in Nat \ {0}
  OBVIOUS
<1>3. Len(<<>>) = 0 /\ 0 <= InputLimit
  BY DEF InputLimit
<1>4. 0 <= MenuDepth
  BY DepthPositive
<1> QED BY <1>1, <1>2, <1>3, <1>4 DEF Situated, AtItem

\* Each selection of the path is an item of its menu.
LEMMA SavedIsItem ==
  ASSUME NEW m, Linked(m), m.path # <<>>, NEW k \in 1..(Len(m.path) - 1)
  PROVE  m.saved[k] \in Nat \ {0}
<1> DEFINE items == Menus[m.path[k]]
           Q == [run : BOOLEAN, off : BOOLEAN, sub : DOMAIN Menus \cup {""}]
           n == Len(m.path)
<1>1. m.path \in Seq(DOMAIN Menus) /\ n \in Nat /\ k \in 1..n
  BY DEF Linked
<1>2. m.path[k] \in DOMAIN Menus
  BY <1>1
<1>3. items \in Seq(Q)
  BY <1>2, MenuAssumption
<1>4. m.saved[k] \in 1..Len(items)
  BY DEF Linked
<1> HIDE DEF items, Q
<1>5. Len(items) \in Nat
  BY <1>3
<1> QED BY <1>4, <1>5

LEMMA BackPlaced ==
  ASSUME NEW m, MenuSound(m), m.path # <<>>, Situated(m)
  PROVE  Situated(Back(m)) /\ AtItem(Back(m))
<1>0. DOMAIN m = MenuFields /\ Linked(m) /\ m.path \in Seq(DOMAIN Menus) /\ m.saved \in Seq(Nat)
  BY DEF MenuSound, Linked
<1>1. CASE Len(m.path) = 1
  <2>1. Back(m) = MenuClosed(m)
    BY <1>1 DEF Back
  <2> QED BY <1>0, <2>1, ClosedPlaced
<1>2. CASE Len(m.path) # 1
  <2> DEFINE w == [Unfiltered(m) EXCEPT !.path = Front(@), !.saved = Front(@), !.at = Last(m.saved)]
             n == Len(m.path)
             p == Front(m.path)
             l == Last(m.saved)
  <2>1. Back(m) = Refreshed(w)
    BY <1>2 DEF Back
  <2>2. n \in Nat \ {0, 1} /\ p \in Seq(DOMAIN Menus) /\ Len(p) = n - 1
    BY <1>0, <1>2, Fronted
  <2>3. n - 1 \in 1..(n - 1) /\ n - 1 \in Nat /\ n - 1 # 0
    <3> HIDE DEF n
    <3> QED BY <2>2
  <2>4. Len(m.saved) = n - 1
    BY <1>0 DEF Linked
  <2>5. l = m.saved[n - 1]
    <3>1. m.saved # <<>>
      BY <2>3, <2>4
    <3>2. Last(m.saved) = m.saved[Len(m.saved)]
      BY <1>0, <3>1, Fronted
    <3> QED BY <2>4, <3>2
  <2>6. l \in Nat \ {0}
    BY <1>0, <2>3, <2>5, SavedIsItem
  <2>7. p # <<>>
    BY <2>2, <2>3
  <2>8. n <= MenuDepth /\ m.input \in Seq(Digits) /\ Len(m.input) <= InputLimit
    BY DEF Situated
  <2> HIDE DEF p, l, n
  <2>9. DOMAIN w = MenuFields /\ w.path = p /\ w.at = l /\ w.input = m.input
    BY <1>0 DEF Unfiltered, MenuFields, p, l
  <2> HIDE DEF w
  <2>10. Len(w.path) <= MenuDepth
    BY <2>2, <2>8, <2>9, DepthPositive
  <2>11. Situated(w)
    BY <2>6, <2>8, <2>9, <2>10 DEF Situated
  <2> QED BY <2>1, <2>2, <2>7, <2>9, <2>11, RefreshedPlaced
<1> QED BY <1>1, <1>2

LEMMA DescendedPlaced ==
  ASSUME NEW m, MenuSound(m), m.path # <<>>, Situated(m), NEW n, ~Refused(m, n), ~Items(m)[n].run
  PROVE  Situated(Descended(m, n)) /\ AtItem(Descended(m, n))
<1> DEFINE d == Len(m.path)
           sub == Items(m)[n].sub
           p == Append(m.path, sub)
           w == [Unfiltered(m) EXCEPT !.path = Append(@, Items(m)[n].sub), !.saved = Append(@, n), !.at = 1]
           Q == [run : BOOLEAN, off : BOOLEAN, sub : DOMAIN Menus \cup {""}]
           items == Items(m)
<1>0. DOMAIN m = MenuFields /\ m.path \in Seq(DOMAIN Menus)
  BY DEF MenuSound, Linked
<1>1. d \in Nat /\ d # MenuDepth /\ d <= MenuDepth /\ sub # "" /\ n \in 1..Len(items)
  <2>1. d # MenuDepth /\ sub # "" /\ n \in 1..Len(items)
    BY Zenon DEF Refused
  <2>2. d \in Nat
    BY <1>0
  <2>3. d <= MenuDepth
    BY DEF Situated
  <2> HIDE DEF d, sub, items
  <2> QED BY <2>1, <2>2, <2>3
<1>2. items \in Seq(Q)
  <2>1. Len(m.path) \in Nat \ {0} /\ Last(m.path) = m.path[d]
    BY <1>0, Fronted
  <2>2. m.path[d] \in DOMAIN Menus
    <3>1. d \in 1..Len(m.path)
      BY <2>1
    <3> HIDE DEF d
    <3> QED BY <1>0, <3>1
  <2>3. Items(m) = Menus[m.path[d]]
    BY <2>1 DEF Items, Top
  <2> QED BY <2>2, <2>3, MenuAssumption
<1>3. sub \in DOMAIN Menus
  <2> HIDE DEF Q
  <2>1. items[n] \in Q
    <3>1. n \in 1..Len(items) /\ items \in Seq(Q)
      BY <1>1, <1>2
    <3> HIDE DEF items
    <3> QED BY <3>1
  <2>2. items[n].sub \in DOMAIN Menus \cup {""}
    BY <2>1 DEF Q
  <2> QED BY <1>1, <2>2
<1>4. Descended(m, n) = Refreshed(w)
  BY DEF Descended
<1> HIDE DEF sub, items, d
<1>5. p \in Seq(DOMAIN Menus) /\ Len(p) = d + 1 /\ p # <<>>
  <2> DEFINE z == m.path
  <2>1. z \in Seq(DOMAIN Menus) /\ d = Len(z)
    BY <1>0 DEF d
  <2> HIDE DEF z
  <2>2. Append(z, sub) \in Seq(DOMAIN Menus) /\ Len(Append(z, sub)) = d + 1 /\ Append(z, sub) # <<>>
    <3> HIDE DEF Q
    <3>1. Append(z, sub) \in Seq(DOMAIN Menus)
      BY <1>3, <2>1
    <3>2. Len(Append(z, sub)) = Len(z) + 1
      BY <1>3, <2>1
    <3>3. Append(z, sub) # <<>>
      <4>1. Len(z) \in Nat /\ Len(<<>>) = 0
        BY <2>1
      <4>2. Len(z) + 1 # 0
        BY <4>1
      <4> QED BY <3>2, <4>1, <4>2, Zenon
    <3> QED BY <2>1, <3>1, <3>2, <3>3
  <2> QED BY <2>2 DEF z, p
<1> HIDE DEF p
<1>6. DOMAIN w = MenuFields /\ w.path = p /\ w.at = 1 /\ w.input = m.input
  BY <1>0 DEF Unfiltered, MenuFields, p, sub
<1> HIDE DEF w
<1>7. Len(w.path) <= MenuDepth
  <2>1. Len(w.path) = d + 1
    BY <1>5, <1>6
  <2>2. d + 1 <= MenuDepth
    <3>1. \A a, b \in Nat : a <= b /\ a # b => a + 1 <= b
      OBVIOUS
    <3> QED BY <1>1, <3>1, DepthPositive, Zenon
  <2> QED BY <2>1, <2>2
<1>8. Situated(w)
  BY <1>6, <1>7 DEF Situated
<1> QED BY <1>4, <1>5, <1>6, <1>8, RefreshedPlaced

LEMMA ChoosesPlaced ==
  ASSUME NEW m, MenuSound(m), m.path # <<>>, Situated(m), NEW n,
         NEW refused, Situated(refused), AtItem(refused), Chooses(m, n, refused)
  PROVE  MenuFine'
<1>0. DOMAIN m = MenuFields
  BY DEF MenuSound
<1>1. Situated(Back(m)) /\ AtItem(Back(m))
  BY BackPlaced
<1>2. ~Refused(m, n) /\ ~Items(m)[n].run => Situated(Descended(m, n)) /\ AtItem(Descended(m, n))
  BY DescendedPlaced
<1>3. Situated(MenuClosed(m)) /\ AtItem(MenuClosed(m))
  BY <1>0, ClosedPlaced
<1>4. \E w : menu' = w /\ Situated(w) /\ AtItem(w)
  BY <1>1, <1>2, <1>3 DEF Chooses
<1> QED BY <1>4 DEF MenuFine

\* Typing leaves the cursor where it is.
LEMMA TypedPlaced ==
  ASSUME MenuGood, MenuFine, NEW i \in Seq(Digits), Len(i) <= InputLimit, NEW b, NEW w,
         w \in {[menu EXCEPT !.input = i, !.bad = b], [menu EXCEPT !.input = i], [menu EXCEPT !.bad = b]}
  PROVE  Situated(w) /\ AtItem(w)
<1>1. DOMAIN menu = MenuFields /\ Situated(menu) /\ AtItem(menu)
  BY DEF MenuGood, MenuSound, MenuFine
<1>2. SameRows(menu, w) /\ w.at = menu.at /\ (w.input = menu.input \/ w.input = i)
  BY <1>1 DEF SameRows, MenuFields
<1>3. Shows(w) = Shows(menu) /\ View(w) = View(menu) /\ w.path = menu.path
  BY <1>2, RowsAre DEF SameRows
<1> QED BY <1>1, <1>2, <1>3 DEF Situated, AtItem

LEMMA GrownPlaced ==
  ASSUME MenuGood, MenuOpened, NEW w, Grown(menu, w), Situated(w)
  PROVE  /\ Situated(Draw(w)) /\ AtItem(Draw(w))
         /\ Situated(Refreshed(w)) /\ AtItem(Refreshed(w))
<1>1. DOMAIN w = MenuFields /\ w.path \in Seq(DOMAIN Menus) /\ w.path # <<>>
  BY DEF Grown, MenuGood, MenuSound, Linked, MenuOpened
<1>2. Situated(Draw(w)) /\ AtItem(Draw(w))
  BY <1>1, DrawPlaced
<1> QED BY <1>1, <1>2, RefreshedPlaced

LEMMA NoInput == <<>> \in Seq(Digits) /\ Len(<<>>) <= InputLimit
BY DEF InputLimit

LEMMA TopPlaced ==
  ASSUME NEW w, DOMAIN w = MenuFields, w.path = <<TopMenu>>, w.at \in Nat \ {0},
         w.input \in Seq(Digits), Len(w.input) <= InputLimit
  PROVE  Situated(Refreshed(w)) /\ AtItem(Refreshed(w))
<1>1. TopMenu \in DOMAIN Menus
  BY MenuAssumption
<1>2. <<TopMenu>> \in Seq(DOMAIN Menus) /\ Len(<<TopMenu>>) = 1
  BY <1>1, OneLong
<1>3. <<TopMenu>> # <<>>
  OBVIOUS
<1>4. Situated(w)
  BY <1>2, DepthPositive DEF Situated
<1> QED BY <1>2, <1>3, <1>4, RefreshedPlaced

LEMMA MenuStartsFine == ASSUME MenuInit PROVE MenuFine
<1>1. PICK style : menu = Refreshed([MenuNone EXCEPT !.style = style, !.path = <<TopMenu>>])
  BY DEF MenuInit
<1> DEFINE w == [MenuNone EXCEPT !.style = style, !.path = <<TopMenu>>]
<1>2. DOMAIN w = MenuFields /\ w.path = <<TopMenu>> /\ w.at = 1 /\ w.input = <<>>
  BY DEF MenuNone, MenuFields
<1> HIDE DEF w
<1>3. w.at \in Nat \ {0} /\ w.input \in Seq(Digits) /\ Len(w.input) <= InputLimit
  BY <1>2, NoInput
<1>4. Situated(Refreshed(w)) /\ AtItem(Refreshed(w))
  BY <1>2, <1>3, TopPlaced
<1> QED BY <1>1, <1>4 DEF MenuFine, w

\* Every key leaves the cursor on a row and the path within its depth.
LEMMA MenuKeepsFine == ASSUME MenuGood, MenuFine, MenuNext PROVE MenuFine'
<1>0. /\ MenuSound(menu) /\ DOMAIN menu = MenuFields /\ Situated(menu) /\ AtItem(menu)
      /\ menu.at \in Nat \ {0} /\ menu.input \in Seq(Digits) /\ Len(menu.input) <= InputLimit
      /\ Len(menu.path) <= MenuDepth
  BY DEF MenuGood, MenuSound, MenuFine, Situated
<1>n. <<>> \in Seq(Digits) /\ Len(<<>>) <= InputLimit /\ 1 \in Nat \ {0}
  BY NoInput
<1>a. ASSUME NEW x, MenuOpened, DOMAIN x = MenuFields, x.path = menu.path, x.saved = menu.saved,
             x.at \in Nat \ {0}, x.input \in {menu.input, <<>>},
             MenuIs(Draw(x)) \/ MenuIs(Refreshed(x))
      PROVE  MenuFine'
  <2>1. Grown(menu, x)
    BY <1>a DEF Grown
  <2>2. Situated(x)
    BY <1>0, <1>a, <1>n DEF Situated
  <2>3. /\ Situated(Draw(x)) /\ AtItem(Draw(x))
        /\ Situated(Refreshed(x)) /\ AtItem(Refreshed(x))
    BY <1>a, <2>1, <2>2, GrownPlaced
  <2> QED BY <1>a, <2>3 DEF MenuIs, MenuFine
<1>1. CASE MenuOpen
  <2> DEFINE w == [menu EXCEPT !.path = <<TopMenu>>]
  <2>1. menu' = Refreshed(w)
    BY <1>1 DEF MenuOpen
  <2>2. DOMAIN w = MenuFields /\ w.path = <<TopMenu>> /\ w.at = menu.at /\ w.input = menu.input
    BY <1>0 DEF MenuFields
  <2> HIDE DEF w
  <2>3. Situated(Refreshed(w)) /\ AtItem(Refreshed(w))
    BY <1>0, <2>2, TopPlaced
  <2> QED BY <2>1, <2>3 DEF MenuFine
<1>2. ASSUME NEW i \in 1..3, MenuSelect(i) PROVE MenuFine'
  <2> DEFINE j == IF View(menu) = "list" THEN menu.input ELSE <<>>
             w == [menu EXCEPT !.at = i, !.bad = FALSE, !.input = j]
  <2>1. MenuIs(Draw(w)) /\ MenuOpened
    <3>1. [menu EXCEPT !.at = i, !.bad = FALSE, !.input = IF View(menu) = "list" THEN @ ELSE <<>>] = w
      BY <1>0 DEF MenuFields
    <3> QED BY <1>2, <3>1, Zenon DEF MenuSelect
  <2>j. j \in {menu.input, <<>>} /\ i \in Nat \ {0}
    OBVIOUS
  <2> HIDE DEF j
  <2>2. DOMAIN w = MenuFields /\ w.path = menu.path /\ w.saved = menu.saved /\ w.at = i /\ w.input = j
    BY <1>0 DEF MenuFields
  <2> HIDE DEF w
  <2> QED BY <1>a, <2>1, <2>2, <2>j
<1>3. CASE MenuEnter
  <2> DEFINE cleared == [menu EXCEPT !.input = <<>>, !.bad = FALSE]
             wrong == [menu EXCEPT !.bad = TRUE]
             done == [menu EXCEPT !.filtering = FALSE, !.at = 1]
  <2>1. MenuSound(cleared) /\ Grown(menu, cleared) /\ Grown(menu, wrong)
    <3>1. MenuSound(cleared) /\ Grown(menu, cleared)
      BY TypedSound
    <3>2. Grown(menu, wrong)
      BY TypedSound
    <3> QED BY <3>1, <3>2
  <2>2. /\ cleared.at = menu.at /\ cleared.input = <<>> /\ cleared.path = menu.path
        /\ wrong.at = menu.at /\ wrong.input = menu.input /\ wrong.path = menu.path
        /\ done.at = 1 /\ done.input = menu.input /\ done.path = menu.path
        /\ Grown(menu, done)
    BY <1>0 DEF MenuFields, Grown
  <2>3. MenuOpened
    BY <1>3 DEF MenuEnter
  <2>4. \/ MenuIs(Draw(done)) \/ MenuIs(Draw(wrong)) \/ MenuIs(Refreshed(cleared))
        \/ \E n : Chooses(menu, n, Draw(wrong))
        \/ \E n : Chooses(cleared, n, Refreshed(cleared))
    BY <1>3, Zenon DEF MenuEnter
  <2> HIDE DEF cleared, wrong, done
  <2>5. Situated(cleared) /\ Situated(wrong) /\ Situated(done)
    BY <1>0, <1>n, <2>2 DEF Situated
  <2>6. /\ Situated(Draw(wrong)) /\ AtItem(Draw(wrong)) /\ Situated(Draw(done)) /\ AtItem(Draw(done))
        /\ Situated(Refreshed(cleared)) /\ AtItem(Refreshed(cleared))
    BY <2>1, <2>2, <2>3, <2>5, GrownPlaced
  <2>7. menu.path # <<>> /\ cleared.path # <<>>
    BY <2>2, <2>3 DEF MenuOpened
  <2>8. CASE \E n : Chooses(menu, n, Draw(wrong))
    BY <1>0, <2>6, <2>7, <2>8, ChoosesPlaced
  <2>9. CASE \E n : Chooses(cleared, n, Refreshed(cleared))
    BY <2>1, <2>5, <2>6, <2>7, <2>9, ChoosesPlaced
  <2> QED BY <2>4, <2>6, <2>8, <2>9 DEF MenuIs, MenuFine
<1>4. CASE MenuEscape
  <2> DEFINE w == [Unfiltered(menu) EXCEPT !.at = 1, !.bad = FALSE]
  <2>1. MenuOpened /\ (MenuIs(Draw(w)) \/ MenuIs(Back(menu)))
    BY <1>4 DEF MenuEscape
  <2>2. DOMAIN w = MenuFields /\ w.path = menu.path /\ w.saved = menu.saved /\ w.at = 1 /\ w.input = menu.input
    BY <1>0 DEF Unfiltered, MenuFields
  <2> HIDE DEF w
  <2>3. Situated(Back(menu)) /\ AtItem(Back(menu))
    BY <1>0, <2>1, BackPlaced DEF MenuOpened
  <2>4. CASE MenuIs(Draw(w))
    BY <1>a, <1>n, <2>1, <2>2, <2>4
  <2>5. CASE MenuIs(Back(menu))
    BY <2>3, <2>5 DEF MenuIs, MenuFine
  <2> QED BY <2>1, <2>4, <2>5
<1>5. CASE MenuCancel
  BY <1>0, <1>5, ClosedPlaced DEF MenuCancel, MenuIs, MenuFine
<1>6. ASSUME NEW d \in Digits, MenuDigit(d) PROVE MenuFine'
  <2>1. CASE Len(menu.input) = InputLimit
    <3>1. menu' = [menu EXCEPT !.bad = TRUE]
      BY <1>6, <2>1 DEF MenuDigit, MenuIs
    <3> QED BY <1>n, <3>1, TypedPlaced DEF MenuFine
  <2>2. CASE Len(menu.input) # InputLimit
    <3> DEFINE i == Append(menu.input, d)
    <3>1. menu' = [menu EXCEPT !.input = i]
      BY <1>0, <1>6, <2>2 DEF MenuDigit, MenuIs, MenuFields
    <3> DEFINE c == Len(menu.input)
    <3>2. i \in Seq(Digits) /\ Len(i) = c + 1 /\ c \in Nat /\ c <= InputLimit /\ c # InputLimit
      BY <1>0, <2>2
    <3> HIDE DEF i, c
    <3>3. Len(i) <= InputLimit
      BY <3>2 DEF InputLimit
    <3> QED BY <3>1, <3>2, <3>3, TypedPlaced DEF MenuFine
  <2> QED BY <2>1, <2>2
<1>7. CASE MenuLetter
  BY <1>7, <1>n, TypedPlaced DEF MenuLetter, MenuIs, MenuFine
<1>8. CASE MenuErase
  <2>1. CASE menu.bad
    <3>1. menu' = [menu EXCEPT !.bad = FALSE]
      BY <1>8, <2>1 DEF MenuErase, MenuIs
    <3> QED BY <1>n, <3>1, TypedPlaced DEF MenuFine
  <2>2. CASE ~menu.bad
    <3> DEFINE i == Front(menu.input)
    <3>1. menu' = [menu EXCEPT !.input = i] /\ menu.input # <<>>
      BY <1>0, <1>8, <2>2 DEF MenuErase, MenuIs, MenuFields
    <3>2. i \in Seq(Digits) /\ Len(i) = Len(menu.input) - 1 /\ Len(menu.input) \in Nat
      BY <1>0, <3>1, Fronted
    <3> HIDE DEF i
    <3>3. Len(i) <= InputLimit
      BY <1>0, <3>2 DEF InputLimit
    <3> QED BY <3>1, <3>2, <3>3, TypedPlaced DEF MenuFine
  <2> QED BY <2>1, <2>2
<1>9. CASE MenuClearLine
  BY <1>9, <1>n, TypedPlaced DEF MenuClearLine, MenuIs, MenuFine
<1>10. CASE MenuFilter
  <2> DEFINE w == [menu EXCEPT !.filtering = TRUE, !.bad = FALSE]
  <2>1. MenuOpened /\ MenuIs(Draw(w))
    BY <1>10 DEF MenuFilter
  <2>2. DOMAIN w = MenuFields /\ w.path = menu.path /\ w.saved = menu.saved /\ w.at = menu.at /\ w.input = menu.input
    BY <1>0 DEF MenuFields
  <2> HIDE DEF w
  <2> QED BY <1>0, <1>a, <2>1, <2>2
<1>11. ASSUME NEW f, MenuFilterIs(f) PROVE MenuFine'
  <2> DEFINE w == [menu EXCEPT !.filter = f, !.at = 1, !.bad = FALSE]
  <2>1. MenuOpened /\ MenuIs(Draw(w))
    BY <1>11 DEF MenuFilterIs, Filtering
  <2>2. DOMAIN w = MenuFields /\ w.path = menu.path /\ w.saved = menu.saved /\ w.at = 1 /\ w.input = menu.input
    BY <1>0 DEF MenuFields
  <2> HIDE DEF w
  <2> QED BY <1>n, <1>a, <2>1, <2>2
<1>12. ASSUME NEW size, MenuResize(size) PROVE MenuFine'
  <2> DEFINE w == [menu EXCEPT !.size = size]
  <2>1. MenuOpened /\ MenuIs(Refreshed(w))
    BY <1>12 DEF MenuResize
  <2>2. DOMAIN w = MenuFields /\ w.path = menu.path /\ w.saved = menu.saved /\ w.at = menu.at /\ w.input = menu.input
    BY <1>0 DEF MenuFields
  <2> HIDE DEF w
  <2> QED BY <1>0, <1>a, <2>1, <2>2
<1>13. ASSUME NEW t, MenuDescribe(t) PROVE MenuFine'
  <2> DEFINE w == [menu EXCEPT !.texts = t]
  <2>1. MenuOpened /\ MenuIs(Refreshed(w))
    BY <1>13 DEF MenuDescribe
  <2>2. DOMAIN w = MenuFields /\ w.path = menu.path /\ w.saved = menu.saved /\ w.at = menu.at /\ w.input = menu.input
    BY <1>0 DEF MenuFields
  <2> HIDE DEF w
  <2> QED BY <1>0, <1>a, <2>1, <2>2
<1>14. ASSUME NEW n, MenuChoose(n) PROVE MenuFine'
  <2>1. menu.path # <<>> /\ Chooses(menu, n, menu)
    BY <1>14 DEF MenuChoose, MenuOpened
  <2> QED BY <1>0, <2>1, ChoosesPlaced
<1> QED BY <1>1, <1>2, <1>3, <1>4, <1>5, <1>6, <1>7, <1>8, <1>9, <1>10, <1>11, <1>12, <1>13, <1>14 DEF MenuNext

LEMMA MenuFineMeans == ASSUME MenuGood, MenuFine PROVE MenuTypeOK
<1>1. MenuOpened => Len(menu.saved) = Len(menu.path) - 1
  BY DEF MenuGood, MenuSound, Linked, MenuOpened
<1>2. MenuOpened /\ View(menu) # "plain" => menu.at \in 1..Len(Shows(menu)) \/ Shows(menu) = <<>>
  BY DEF MenuFine, AtItem, MenuOpened
<1> QED BY <1>1, <1>2 DEF MenuFine, Situated, MenuTypeOK

-----------------------------------------------------------------------------
(* The file browser.                                                        *)

\* The sequences s[1], s[2], ... put one after another, n of them.
Appended(s, n, f) == f = [i \in 1..n |-> IF i = 1 THEN s[i] ELSE f[i - 1] \o s[i]]

LEMMA AppendedExists == ASSUME NEW s PROVE \A n \in Nat : \E f : Appended(s, n, f)
<1> DEFINE Z == {n \in Nat : \E f : Appended(s, n, f)}
<1>1. 0 \in Z
  <2>1. Appended(s, 0, [i \in 1..0 |-> s])
    BY DEF Appended
  <2> QED BY <2>1
<1>2. ASSUME NEW n \in Z PROVE n + 1 \in Z
  <2>1. PICK f : Appended(s, n, f)
    BY <1>2
  <2> DEFINE g == [i \in 1..(n + 1) |-> IF i <= n THEN f[i] ELSE IF i = 1 THEN s[i] ELSE f[i - 1] \o s[i]]
  <2>2. ASSUME NEW i \in 1..(n + 1) PROVE g[i] = IF i = 1 THEN s[i] ELSE g[i - 1] \o s[i]
    <3>0. n \in Nat /\ i \in Nat
      BY <1>2
    <3>1. i # 1 => i - 1 \in 1..(n + 1) /\ i - 1 <= n /\ g[i - 1] = f[i - 1]
      BY <3>0
    <3>2. CASE i <= n
      <4>1. i \in 1..n /\ g[i] = f[i]
        BY <3>0, <3>2
      <4>2. f[i] = IF i = 1 THEN s[i] ELSE f[i - 1] \o s[i]
        BY <4>1, <2>1 DEF Appended
      <4> QED BY <4>1, <4>2, <3>1
    <3>3. CASE ~(i <= n)
      <4>1. g[i] = IF i = 1 THEN s[i] ELSE f[i - 1] \o s[i]
        BY <3>3
      <4> QED BY <4>1, <3>1
    <3> QED BY <3>2, <3>3
  <2>3. g = [i \in 1..(n + 1) |-> g[i]]
    OBVIOUS
  <2> HIDE DEF g
  <2>4. g = [i \in 1..(n + 1) |-> IF i = 1 THEN s[i] ELSE g[i - 1] \o s[i]]
    BY <2>2, <2>3
  <2>5. Appended(s, n + 1, g)
    BY <2>4 DEF Appended
  <2> QED BY <2>5, <1>2
<1>3. Z = Nat
  <2>1. Z \in SUBSET Nat
    OBVIOUS
  <2> HIDE DEF Z
  <2> QED BY <1>1, <1>2, <2>1, Counted
<1> QED BY <1>3

\* Sequences of rows, one after another, are rows.
LEMMA FlatIn ==
  ASSUME NEW Z, NEW n \in Nat, NEW s \in Seq(Seq(Z)), Len(s) = n
  PROVE  FlattenSeq(s) \in Seq(Z)
<1>1. CASE n = 0
  <2>1. s = <<>> /\ FlattenSeq(s) = s
    BY <1>1 DEF FlattenSeq
  <2>2. <<>> \in Seq(Z)
    OBVIOUS
  <2> QED BY <2>1, <2>2
<1>2. CASE n # 0
  <2> DEFINE f == CHOOSE f : Appended(s, n, f)
  <2>1. Appended(s, n, f)
    BY AppendedExists
  <2>2. FlattenSeq(s) = f[n]
    BY <1>2 DEF FlattenSeq, Appended
  <2> HIDE DEF f
  <2>3. \A i \in 1..n : f[i] = IF i = 1 THEN s[i] ELSE f[i - 1] \o s[i]
    BY <2>1 DEF Appended
  <2>4. \A i \in 1..n : s[i] \in Seq(Z)
    OBVIOUS
  <2> DEFINE G == {k \in Nat : k \in 1..n => f[k] \in Seq(Z)}
  <2>5. ASSUME NEW k \in G PROVE k + 1 \in G
    <3>1. SUFFICES ASSUME k + 1 \in 1..n PROVE f[k + 1] \in Seq(Z)
      OBVIOUS
    <3>2. k = 0 \/ (k \in 1..n /\ f[k] \in Seq(Z) /\ k + 1 # 1 /\ (k + 1) - 1 = k)
      BY <2>5, <3>1
    <3>3. s[k + 1] \in Seq(Z)
      BY <2>4, <3>1
    <3>4. CASE k = 0
      <4>1. k + 1 = 1
        BY <3>4
      <4>2. f[k + 1] = s[k + 1]
        BY <2>3, <3>1, <4>1
      <4> QED BY <4>2, <3>3
    <3>5. CASE k # 0
      <4>1. f[k + 1] = f[k] \o s[k + 1]
        BY <2>3, <3>1, <3>2, <3>5
      <4>2. \A a, b \in Seq(Z) : a \o b \in Seq(Z)
        OBVIOUS
      <4> QED BY <4>1, <4>2, <3>2, <3>3, <3>5
    <3> QED BY <3>4, <3>5
  <2>6. 0 \in G /\ G \in SUBSET Nat
    OBVIOUS
  <2>7. n \in G
    <3> HIDE DEF G
    <3> QED BY <2>5, <2>6, Counted
  <2> QED BY <1>2, <2>2, <2>7
<1> QED BY <1>1, <1>2

\* A snapshot: each node hangs below one that came before it.
Rooted(nodes) ==
  /\ nodes \in Seq([name : STRING, parent : Nat])
  /\ \A i \in 1..Len(nodes) : nodes[i].parent < i
\* What the tree may show of it.
Showable(nodes, foldersOnly) == {i \in 1..Len(nodes) : foldersOnly => nodes[i].name \in Folders}

\* The row of a node and those below it, where g is what is shown below each.
Piece(nodes, foldersOnly, expanded, g, p) ==
  [i \in 1..Len(nodes) |->
     IF nodes[i].parent # p \/ (foldersOnly /\ nodes[i].name \notin Folders) THEN <<>>
     ELSE <<i>> \o (IF i \in expanded THEN g[i] ELSE <<>>)]
Below(nodes, foldersOnly, expanded, g) ==
  g = [p \in 0..Len(nodes) |-> FlattenSeq(Piece(nodes, foldersOnly, expanded, g, p))]

\* What is below a node does not depend on the nodes before it.
LEMMA PieceAgrees ==
  ASSUME NEW nodes, Rooted(nodes), NEW foldersOnly, NEW expanded, NEW g, NEW h,
         NEW p \in 0..Len(nodes), \A i \in 1..Len(nodes) : p < i => g[i] = h[i]
  PROVE  Piece(nodes, foldersOnly, expanded, g, p) = Piece(nodes, foldersOnly, expanded, h, p)
<1>1. ASSUME NEW i \in 1..Len(nodes), nodes[i].parent = p PROVE g[i] = h[i]
  BY <1>1 DEF Rooted
<1> QED BY <1>1 DEF Piece

\* What is below each node, from the last node to the first.
LEMMA BelowExists ==
  ASSUME NEW nodes, Rooted(nodes), NEW foldersOnly, NEW expanded
  PROVE  \E g : Below(nodes, foldersOnly, expanded, g)
<1> DEFINE N == Len(nodes)
           Q(g, p) == FlattenSeq(Piece(nodes, foldersOnly, expanded, g, p))
           From(k, g) == /\ g = [p \in 0..N |-> g[p]]
                         /\ \A p \in 0..N : p + k > N => g[p] = Q(g, p)
           Z == {k \in Nat : \E g : From(k, g)}
<1>0. N \in Nat
  BY DEF Rooted
<1>1. 0 \in Z
  <2>1. From(0, [p \in 0..N |-> 0])
    BY <1>0
  <2> QED BY <2>1
<1>2. ASSUME NEW k \in Z PROVE k + 1 \in Z
  <2>1. PICK g : From(k, g)
    BY <1>2
  <2>0. k \in Nat
    BY <1>2
  <2> DEFINE q == N - k
             h == [p \in 0..N |-> IF p = q THEN Q(g, q) ELSE g[p]]
  <2>2. h = [p \in 0..N |-> h[p]]
    OBVIOUS
  <2>3. ASSUME NEW p \in 0..N, p + (k + 1) > N PROVE h[p] = Q(h, p)
    <3>1. \A i \in 1..N : p < i => g[i] = h[i]
      <4>1. ASSUME NEW i \in 1..N, p < i PROVE i # q /\ i \in 0..N
        BY <4>1, <2>3, <2>0, <1>0
      <4> QED BY <4>1
    <3>2. Q(g, p) = Q(h, p)
      <4> HIDE DEF h
      <4>1. Piece(nodes, foldersOnly, expanded, g, p) = Piece(nodes, foldersOnly, expanded, h, p)
        BY <3>1, PieceAgrees
      <4> QED BY <4>1
    <3>3. CASE p = q
      <4>1. h[p] = Q(g, q)
        BY <3>3
      <4> QED BY <4>1, <3>2, <3>3
    <3>4. CASE p # q
      <4>1. p + k > N
        BY <3>4, <2>3, <2>0, <1>0, SMTT(30)
      <4>2. h[p] = g[p] /\ g[p] = Q(g, p)
        BY <3>4, <4>1, <2>1
      <4> QED BY <4>2, <3>2
    <3> QED BY <3>3, <3>4
  <2>4. From(k + 1, h)
    <3> HIDE DEF h, Q
    <3> QED BY <2>2, <2>3
  <2> HIDE DEF From
  <2> QED BY <2>0, <2>4
<1>3. N + 1 \in Z
  <2>1. Z \in SUBSET Nat
    OBVIOUS
  <2> HIDE DEF Z
  <2>2. Z = Nat
    BY <1>1, <1>2, <2>1, Counted
  <2> QED BY <2>2, <1>0
<1>4. PICK g : From(N + 1, g)
  BY <1>3
<1>5. \A p \in 0..N : g[p] = Q(g, p)
  BY <1>0, <1>4
<1>6. g = [p \in 0..N |-> g[p]]
  BY <1>4
<1> HIDE DEF From, Z
<1>7. g = [p \in 0..N |-> Q(g, p)]
  <2> HIDE DEF Q, N
  <2> QED BY <1>5, <1>6
<1> QED BY <1>7 DEF Below

\* The rows are nodes, folders alone where only folders are shown.
LEMMA VisibleRows ==
  ASSUME NEW nodes, Rooted(nodes), NEW foldersOnly, NEW expanded
  PROVE  Visible(nodes, foldersOnly, expanded) \in Seq(Showable(nodes, foldersOnly))
<1> DEFINE N == Len(nodes)
           A == Showable(nodes, foldersOnly)
           g == CHOOSE g : Below(nodes, foldersOnly, expanded, g)
<1>0. N \in Nat
  BY DEF Rooted
<1>1. Below(nodes, foldersOnly, expanded, g)
  BY BelowExists
<1>2. Visible(nodes, foldersOnly, expanded) = g[0]
  BY DEF Visible, Below, Piece, NoParent
<1> HIDE DEF g
<1>3. \A p \in 0..N : g[p] = FlattenSeq(Piece(nodes, foldersOnly, expanded, g, p))
  BY <1>1 DEF Below
<1> DEFINE Z == {k \in Nat : \A p \in 0..N : p + k > N => g[p] \in Seq(A)}
<1>4. 0 \in Z
  BY <1>0
<1>5. ASSUME NEW k \in Z PROVE k + 1 \in Z
  <2>1. SUFFICES ASSUME NEW p \in 0..N, p + (k + 1) > N PROVE g[p] \in Seq(A)
    BY <1>5
  <2> DEFINE s == Piece(nodes, foldersOnly, expanded, g, p)
  <2>2. ASSUME NEW i \in 1..N PROVE s[i] \in Seq(A)
    <3> DEFINE row == <<i>> \o (IF i \in expanded THEN g[i] ELSE <<>>)
    <3>1. s[i] = IF nodes[i].parent # p \/ (foldersOnly /\ nodes[i].name \notin Folders) THEN <<>> ELSE row
      BY DEF Piece
    <3>2. ASSUME nodes[i].parent = p, foldersOnly => nodes[i].name \in Folders PROVE row \in Seq(A)
      <4>1. p < i
        BY <3>2 DEF Rooted
      <4>2. i + k > N /\ i \in 0..N
        BY <4>1, <2>1, <1>5, <1>0
      <4>3. g[i] \in Seq(A)
        BY <4>2, <1>5
      <4>4. i \in A
        BY <3>2 DEF Showable
      <4> HIDE DEF A
      <4>5. <<i>> \in Seq(A)
        BY <4>4
      <4>6. <<>> \in Seq(A)
        OBVIOUS
      <4>7. \A a, b \in Seq(A) : a \o b \in Seq(A)
        OBVIOUS
      <4> DEFINE rest == IF i \in expanded THEN g[i] ELSE <<>>
      <4>8. rest \in Seq(A)
        BY <4>3, <4>6
      <4> HIDE DEF rest
      <4> QED BY <4>5, <4>7, <4>8 DEF rest
    <3>3. <<>> \in Seq(A)
      OBVIOUS
    <3> HIDE DEF row, A, s
    <3> QED BY <3>1, <3>2, <3>3
  <2>3. s \in Seq(Seq(A)) /\ Len(s) = N
    <3>1. s = [i \in 1..N |-> s[i]]
      BY DEF Piece
    <3> DEFINE B == Seq(A)
    <3>2. \A i \in 1..N : s[i] \in B
      BY <2>2
    <3> HIDE DEF s, B, N
    <3>3. s \in Seq(B)
      BY <3>1, <3>2, <1>0
    <3>4. Len(s) = N
      BY <3>1, <1>0
    <3> QED BY <3>3, <3>4 DEF B
  <2>4. p \in 0..N
    BY <2>1
  <2>5. g[p] = FlattenSeq(s)
    BY <1>3
  <2> HIDE DEF s, A
  <2>6. FlattenSeq(s) \in Seq(A)
    BY <2>3, <1>0, FlatIn
  <2> QED BY <2>5, <2>6
<1>6. N + 1 \in Z
  <2>1. Z \in SUBSET Nat
    OBVIOUS
  <2> HIDE DEF Z
  <2>2. Z = Nat
    BY <1>4, <1>5, <2>1, Counted
  <2> QED BY <2>2, <1>0
<1>7. g[0] \in Seq(A)
  <2>1. 0 \in 0..N /\ 0 + (N + 1) > N
    BY <1>0
  <2> QED BY <2>1, <1>6
<1> QED BY <1>2, <1>7

\* The listing is nodes.
LEMMA WithinRows ==
  ASSUME NEW nodes, Rooted(nodes), NEW dir
  PROVE  Within(nodes, dir) \in Seq(1..Len(nodes))
<1> DEFINE N == Len(nodes)
           s == [i \in 1..N |-> IF nodes[i].parent = dir THEN <<i>> ELSE <<>>]
           A == 1..N
           B == Seq(A)
<1>1. N \in Nat
  BY DEF Rooted
<1>2. ASSUME NEW i \in A PROVE s[i] \in B
  <2>1. <<>> \in B
    OBVIOUS
  <2>2. <<i>> \in B
    <3> HIDE DEF A
    <3> QED OBVIOUS
  <2>3. s[i] = IF nodes[i].parent = dir THEN <<i>> ELSE <<>>
    OBVIOUS
  <2> HIDE DEF s, A, B
  <2> QED BY <2>1, <2>2, <2>3
<1>3. s = [i \in 1..N |-> s[i]]
  OBVIOUS
<1>4. Within(nodes, dir) = FlattenSeq(s)
  BY DEF Within
<1>5. s \in Seq(B) /\ Len(s) = N
  <2> HIDE DEF s, B, N
  <2>1. s \in Seq(B)
    BY <1>1, <1>2, <1>3
  <2>2. Len(s) = N
    BY <1>1, <1>3
  <2> QED BY <2>1, <2>2
<1> HIDE DEF s, A, N
<1>6. FlattenSeq(s) \in Seq(A)
  BY <1>1, <1>5, FlatIn
<1> QED BY <1>4, <1>6 DEF A, N

\* The browser's fields, and what keeps them in order: the snapshot is one, and the
\* selections and the current directory are somewhere.
FileFields == {"open", "layout", "wide", "nodes", "loaded", "expanded", "tree", "list", "dir", "pane",
               "shown", "asked"}
\* Of n nodes, those the loader was asked for are loaded, and each was asked for once.
OnceEach(n, loaded, asked) ==
  /\ loaded \in Seq(BOOLEAN) /\ Len(loaded) = n
  /\ asked \in Seq(1..n) /\ IsInjective(asked) /\ \A k \in 1..Len(asked) : loaded[asked[k]] = TRUE
FilesSound(f) ==
  /\ DOMAIN f = FileFields /\ f.open /\ Rooted(f.nodes)
  /\ OnceEach(Len(f.nodes), f.loaded, f.asked) /\ f.expanded \subseteq 1..Len(f.nodes)
  /\ f.tree \in Nat \ {0} /\ f.list \in Nat \ {0} /\ f.dir \in 1..Len(f.nodes)
\* What an operation on the snapshot leaves alone.
SameView(f, w) == w.open = f.open /\ w.layout = f.layout /\ w.wide = f.wide /\ w.pane = f.pane
Leaves(f, w) == FilesSound(w) /\ SameView(f, w)
\* The focused panel, unless it is the tree of folders of the split layout, shows its selection.
FilesShow(f) ==
  InListing(f) \/ f.layout # "split" =>
    LET rows == Panel(f)
    IN  rows # <<>> => Bounded(At(f), rows) = At(f) /\ f.shown = f.nodes[rows[At(f)]].name
NothingOpen(f) == f.nodes = <<>> /\ f.loaded = <<>> /\ f.expanded = {} /\ f.asked = <<>>
FilesGood ==
  /\ files.open => FilesSound(files) /\ FilesShow(files) /\ picked = <<>>
  /\ ~files.open => NothingOpen(files) /\ Len(picked) = 1

LEMMA SoundMeans ==
  ASSUME NEW f, FilesSound(f)
  PROVE  DOMAIN f = FileFields /\ Len(f.nodes) \in Nat /\ f.expanded \subseteq 1..Len(f.nodes)
<1>1. DOMAIN f = FileFields /\ f.expanded \subseteq 1..Len(f.nodes) /\ Rooted(f.nodes)
  BY DEF FilesSound
<1> QED BY <1>1 DEF Rooted

\* The rows of every panel are nodes.
LEMMA RowsOf ==
  ASSUME NEW f, FilesSound(f)
  PROVE  /\ TreeRows(f) \in Seq(Showable(f.nodes, f.layout = "split"))
         /\ TreeRows(f) \in Seq(1..Len(f.nodes)) /\ Listing(f) \in Seq(1..Len(f.nodes))
         /\ Panel(f) \in Seq(1..Len(f.nodes))
<1> DEFINE A == Showable(f.nodes, f.layout = "split")
           B == 1..Len(f.nodes)
<1>1. TreeRows(f) \in Seq(A)
  BY VisibleRows DEF FilesSound, TreeRows
<1>2. Listing(f) \in Seq(B)
  BY WithinRows DEF FilesSound, Listing
<1>3. A \subseteq B
  BY DEF Showable
<1>4. TreeRows(f) \in Seq(B)
  <2> HIDE DEF A, B
  <2> QED BY <1>1, <1>3
<1> QED BY <1>1, <1>2, <1>4 DEF Panel

\* A bounded selection is a row, and bounding it again moves nothing.
LEMMA BoundedIn ==
  ASSUME NEW Z, NEW rows \in Seq(Z), NEW i
  PROVE  /\ i \in Nat \ {0} => Bounded(i, rows) \in Nat \ {0}
         /\ i \in Nat \ {0} /\ rows # <<>> => Bounded(i, rows) \in 1..Len(rows) /\ rows[Bounded(i, rows)] \in Z
         /\ Bounded(Bounded(i, rows), rows) = Bounded(i, rows)
<1> DEFINE c == Len(rows)
<1>1. c \in Nat /\ (rows # <<>> => c # 0)
  OBVIOUS
<1>2. \A k \in 1..c : rows[k] \in Z
  OBVIOUS
<1>3. Bounded(i, rows) = IF rows = <<>> THEN 1 ELSE IF i > c THEN c ELSE i
  BY DEF Bounded
<1>4. Bounded(Bounded(i, rows), rows) =
        IF rows = <<>> THEN 1 ELSE IF Bounded(i, rows) > c THEN c ELSE Bounded(i, rows)
  BY DEF Bounded
<1> HIDE DEF c
<1>5. i \in Nat \ {0} /\ rows # <<>> => Bounded(i, rows) \in 1..c
  BY <1>1, <1>3
<1>6. i \in Nat \ {0} => Bounded(i, rows) \in Nat \ {0}
  BY <1>1, <1>3
<1>7. Bounded(Bounded(i, rows), rows) = Bounded(i, rows)
  BY <1>1, <1>3, <1>4
<1> QED BY <1>2, <1>5, <1>6, <1>7 DEF c

\* What a directory brings hangs below it.
LEMMA Extended ==
  ASSUME NEW nodes, Rooted(nodes), NEW id \in 1..Len(nodes), NEW names \in Seq(STRING)
  PROVE  LET new == [k \in 1..Len(names) |-> [name |-> names[k], parent |-> id]]
         IN  Rooted(nodes \o new) /\ Len(nodes) <= Len(nodes \o new)
<1> DEFINE new == [k \in 1..Len(names) |-> [name |-> names[k], parent |-> id]]
           Q == [name : STRING, parent : Nat]
           n == Len(nodes)
           m == Len(names)
           all == nodes \o new
<1>1. n \in Nat /\ m \in Nat /\ nodes \in Seq(Q) /\ \A i \in 1..n : nodes[i].parent < i
  BY DEF Rooted
<1>2. \A k \in 1..m : new[k] \in Q /\ new[k].parent = id
  <2>1. \A k \in 1..m : names[k] \in STRING
    OBVIOUS
  <2> QED BY <2>1
<1>3. new = [k \in 1..m |-> new[k]]
  OBVIOUS
<1> HIDE DEF new, Q, n, m
<1>4. new \in Seq(Q)
  BY <1>1, <1>2, <1>3
<1>5. Len(new) = m
  BY <1>1, <1>3
<1>6. all \in Seq(Q)
  BY <1>1, <1>4
<1>7. Len(all) = n + m
  <2>1. \A a, b \in Seq(Q) : Len(a \o b) = Len(a) + Len(b)
    OBVIOUS
  <2> QED BY <2>1, <1>1, <1>4, <1>5 DEF n
<1>8. ASSUME NEW i \in 1..(n + m) PROVE all[i].parent < i
  <2>1. CASE i <= n
    <3>1. i \in 1..n
      BY <2>1, <1>1
    <3>2. all[i] = nodes[i]
      BY <3>1, <1>1, <1>4, <1>5, <1>8 DEF n
    <3> QED BY <3>1, <3>2, <1>1
  <2>2. CASE ~(i <= n)
    <3>1. i - n \in 1..m
      BY <2>2, <1>1, <1>8
    <3>2. all[i] = new[i - n]
      BY <2>2, <1>1, <1>4, <1>5, <1>8 DEF n
    <3>3. all[i].parent = id
      BY <3>1, <3>2, <1>2
    <3>4. id < i
      BY <2>2, <1>1 DEF n
    <3> QED BY <3>3, <3>4
  <2> QED BY <2>1, <2>2
<1>9. Rooted(all)
  <2>1. \A i \in 1..Len(all) : all[i].parent < i
    BY <1>7, <1>8
  <2> QED BY <1>6, <2>1 DEF Rooted, Q
<1>10. n <= n + m
  BY <1>1
<1> HIDE DEF all
<1>11. Len(nodes) <= Len(all)
  BY <1>7, <1>10 DEF n
<1> QED BY <1>9, <1>11, Zenon DEF all, new, m

\* A directory that was not loaded is asked for, and what it brings is not loaded yet.
LEMMA AskedOnceMore ==
  ASSUME NEW n \in Nat, NEW m \in Nat, NEW loaded, NEW asked, OnceEach(n, loaded, asked),
         NEW id \in 1..n, ~loaded[id]
  PROVE  OnceEach(n + m, [loaded EXCEPT ![id] = TRUE] \o [k \in 1..m |-> FALSE], Append(asked, id))
<1> DEFINE old == [loaded EXCEPT ![id] = TRUE]
           new == [k \in 1..m |-> FALSE]
           l == old \o new
           a == Append(asked, id)
           c == Len(asked)
<1>1. loaded \in Seq(BOOLEAN) /\ Len(loaded) = n /\ asked \in Seq(1..n) /\ c \in Nat
      /\ IsInjective(asked) /\ \A k \in 1..c : loaded[asked[k]] = TRUE
  BY DEF OnceEach
<1>2. old \in Seq(BOOLEAN) /\ Len(old) = n /\ \A k \in 1..n : old[k] = IF k = id THEN TRUE ELSE loaded[k]
  BY <1>1
<1>3. new \in Seq(BOOLEAN) /\ Len(new) = m
  OBVIOUS
<1> HIDE DEF old, new
<1>4. l \in Seq(BOOLEAN) /\ Len(l) = n + m
  BY <1>2, <1>3
<1>5. \A k \in 1..n : l[k] = old[k]
  BY <1>2, <1>3
<1>6. /\ a \in Seq(1..n) /\ Len(a) = c + 1 /\ a[c + 1] = id
      /\ \A k \in 1..c : a[k] = asked[k] /\ asked[k] \in 1..n
  <2> DEFINE Z == 1..n
  <2>1. id \in Z /\ asked \in Seq(Z)
    BY <1>1
  <2> HIDE DEF Z
  <2> QED BY <2>1 DEF Z
<1>7. \A k \in 1..c : asked[k] # id
  BY <1>1
<1>c. c \in Nat /\ \A i, k \in 1..c : asked[i] = asked[k] => i = k
  BY <1>1 DEF IsInjective
<1>d. DOMAIN a = 1..(c + 1)
  BY <1>6
<1> HIDE DEF l, a, c
<1>e. \A k : k \in 1..(c + 1) => k \in 1..c \/ k = c + 1
  BY <1>c
<1>8. ASSUME NEW k \in 1..Len(a) PROVE l[a[k]] = TRUE
  <2>0. k \in 1..c \/ k = c + 1
    BY <1>8, <1>6, <1>e
  <2>1. CASE k \in 1..c
    <3>1. a[k] = asked[k] /\ asked[k] \in 1..n /\ loaded[asked[k]] = TRUE
      BY <2>1, <1>1, <1>6
    <3> QED BY <3>1, <1>2, <1>5
  <2>2. CASE k = c + 1
    BY <2>2, <1>2, <1>5, <1>6
  <2> QED BY <2>0, <2>1, <2>2
<1>9. IsInjective(a)
  <2>2. ASSUME NEW i \in 1..(c + 1), NEW k \in 1..(c + 1), a[i] = a[k] PROVE i = k
    <3>1. CASE i \in 1..c /\ k \in 1..c
      BY <3>1, <2>2, <1>6, <1>c
    <3>2. CASE i = c + 1 \/ k = c + 1
      <4>1. i = c + 1 => k = c + 1
        BY <2>2, <1>6, <1>7, <1>e
      <4>2. k = c + 1 => i = c + 1
        BY <2>2, <1>6, <1>7, <1>e
      <4> QED BY <3>2, <4>1, <4>2
    <3> QED BY <3>1, <3>2, <2>2, <1>e
  <2> QED BY <1>d, <2>2 DEF IsInjective
<1>10. a \in Seq(1..(n + m))
  <2>1. 1..n \subseteq 1..(n + m)
    OBVIOUS
  <2> DEFINE Y == 1..n
             Z == 1..(n + m)
  <2> HIDE DEF Y, Z
  <2>2. a \in Seq(Y) /\ Y \subseteq Z
    BY <1>6, <2>1 DEF Y, Z
  <2>3. a \in Seq(Z)
    BY <2>2
  <2> QED BY <2>3 DEF Z
<1>11. OnceEach(n + m, l, a)
  BY <1>4, <1>8, <1>9, <1>10 DEF OnceEach
<1> QED BY <1>11 DEF l, old, new, a

\* A directory that is loaded extends the snapshot.
LEMMA LoadSound == ASSUME NEW f, FilesSound(f), NEW id \in 1..Len(f.nodes)
  PROVE  Leaves(f, Load(f, id)) /\ Len(f.nodes) <= Len(Load(f, id).nodes)
<1>1. CASE ~IsFolder(f, id) \/ IsDisabled(f, id) \/ f.loaded[id]
  <2>1. Len(f.nodes) \in Nat
    BY DEF FilesSound, Rooted
  <2>2. Load(f, id) = f
    BY <1>1 DEF Load
  <2> QED BY <2>1, <2>2 DEF Leaves, SameView
<1>2. CASE IsFolder(f, id) /\ ~IsDisabled(f, id) /\ ~f.loaded[id]
  <2> DEFINE name == f.nodes[id].name
             names == IF name \in Unreadable THEN <<>> ELSE Children[name]
             new == IF name \in Unreadable THEN <<>>
                    ELSE [k \in 1..Len(Children[name]) |-> [name |-> Children[name][k], parent |-> id]]
             more == [k \in 1..Len(names) |-> [name |-> names[k], parent |-> id]]
             l == [f.loaded EXCEPT ![id] = TRUE] \o [k \in 1..Len(new) |-> FALSE]
             w == [f EXCEPT !.nodes = f.nodes \o new, !.asked = Append(f.asked, id), !.loaded = l]
  <2>1. Load(f, id) = w
    BY <1>2 DEF Load
  <2>2. names \in Seq(STRING)
    <3>1. name \in Folders \ Disabled
      BY <1>2 DEF IsFolder, IsDisabled
    <3>2. <<>> \in Seq(STRING)
      OBVIOUS
    <3> QED BY <3>1, <3>2, FilesAssumption
  <2>3. new = more
    <3>1. CASE name \in Unreadable
      <4>1. names = <<>> /\ new = <<>>
        BY <3>1
      <4>2. more = <<>>
        <5>1. Len(names) = 0
          BY <4>1
        <5> HIDE DEF names
        <5> QED BY <5>1
      <4> QED BY <4>1, <4>2
    <3>2. CASE name \notin Unreadable
      BY <3>2
    <3> QED BY <3>1, <3>2
  <2>4. Rooted(f.nodes \o new) /\ Len(f.nodes) <= Len(f.nodes \o new)
    <3> HIDE DEF names, new, name
    <3>1. Rooted(f.nodes)
      BY DEF FilesSound
    <3>2. Rooted(f.nodes \o more) /\ Len(f.nodes) <= Len(f.nodes \o more)
      BY <2>2, <3>1, Extended
    <3> HIDE DEF more
    <3> QED BY <3>2, <2>3
  <2>5. DOMAIN f = FileFields
    BY DEF FilesSound
  <2> DEFINE all == f.nodes \o new
             asks == Append(f.asked, id)
  <2>6. w = [f EXCEPT !.nodes = all, !.asked = asks, !.loaded = l]
    OBVIOUS
  <2>9. Len(all) = Len(f.nodes) + Len(new) /\ Len(new) \in Nat
    <3> DEFINE Q == [name : STRING, parent : Nat]
    <3>1. f.nodes \in Seq(Q) /\ names \in Seq(STRING)
      BY <2>2 DEF FilesSound, Rooted
    <3>2. more \in Seq(Q)
      <4>1. \A k \in 1..Len(names) : more[k] \in Q
        <5>1. \A k \in 1..Len(names) : names[k] \in STRING
          <6> HIDE DEF names
          <6> QED BY <3>1
        <5>2. id \in Nat
          <6>1. Len(f.nodes) \in Nat
            BY <3>1
          <6> QED BY <6>1
        <5> HIDE DEF names
        <5> QED BY <5>1, <5>2
      <4> HIDE DEF names
      <4>2. Len(names) \in Nat
        BY <3>1
      <4>3. more = [k \in 1..Len(names) |-> more[k]]
        OBVIOUS
      <4> HIDE DEF more, Q
      <4> QED BY <4>1, <4>2, <4>3
    <3> HIDE DEF Q, names, more, new
    <3>3. \A a, b \in Seq(Q) : Len(a \o b) = Len(a) + Len(b) /\ Len(b) \in Nat
      OBVIOUS
    <3> QED BY <2>3, <3>1, <3>2, <3>3
  <2>a. OnceEach(Len(all), l, asks)
    <3>1. Len(f.nodes) \in Nat /\ OnceEach(Len(f.nodes), f.loaded, f.asked) /\ ~f.loaded[id]
      BY <1>2 DEF FilesSound, Rooted
    <3> HIDE DEF all, new
    <3>2. OnceEach(Len(f.nodes) + Len(new), l, asks)
      BY <2>9, <3>1, AskedOnceMore
    <3> QED BY <2>9, <3>2
  <2> HIDE DEF all, asks, l, new, name, w
  <2>7. /\ DOMAIN w = FileFields /\ w.nodes = all /\ w.loaded = l /\ w.asked = asks /\ w.expanded = f.expanded
        /\ w.tree = f.tree /\ w.list = f.list /\ w.dir = f.dir
        /\ SameView(f, w)
    BY <2>5, <2>6 DEF FileFields, SameView
  <2>8. f.dir \in 1..Len(all)
    <3>1. Len(f.nodes) \in Nat /\ Len(all) \in Nat
      BY <2>4 DEF Rooted, FilesSound, all
    <3>2. f.dir \in 1..Len(f.nodes) /\ Len(f.nodes) <= Len(all)
      BY <2>4 DEF FilesSound, all
    <3> QED BY <3>1, <3>2
  <2>10. f.expanded \subseteq 1..Len(all)
    <3>1. Len(f.nodes) \in Nat /\ Len(all) \in Nat
      BY <2>4 DEF Rooted, FilesSound, all
    <3>2. f.expanded \subseteq 1..Len(f.nodes) /\ Len(f.nodes) <= Len(all)
      BY <2>4 DEF FilesSound, all
    <3> QED BY <3>1, <3>2
  <2>11. FilesSound(w)
    <3>1. Rooted(all)
      BY <2>4 DEF all
    <3>2. f.tree \in Nat \ {0} /\ f.list \in Nat \ {0}
      BY DEF FilesSound
    <3>3. w.open
      BY <2>7 DEF SameView, FilesSound
    <3> QED BY <2>7, <2>8, <2>10, <2>a, <3>1, <3>2, <3>3 DEF FilesSound
  <2> QED BY <2>1, <2>4, <2>7, <2>11 DEF Leaves, all
<1> QED BY <1>1, <1>2

LEMMA FocusSound == ASSUME NEW f, FilesSound(f), NEW id \in 1..Len(f.nodes) PROVE Leaves(f, FocusOn(f, id))
<1>1. CASE ~IsFolder(f, id)
  BY <1>1 DEF FocusOn, Leaves, SameView
<1>2. CASE IsFolder(f, id)
  <2> DEFINE l == IF f.dir = id THEN f.list ELSE 1
             w == [f EXCEPT !.dir = id, !.list = l]
  <2>1. FocusOn(f, id) = Load(w, id)
    BY <1>2 DEF FocusOn
  <2>2. l \in Nat \ {0}
    BY DEF FilesSound
  <2> HIDE DEF l
  <2>3. /\ w.nodes = f.nodes /\ SameView(f, w) /\ w.dir = id /\ w.list = l /\ w.tree = f.tree
        /\ w.loaded = f.loaded /\ w.asked = f.asked /\ w.expanded = f.expanded /\ DOMAIN w = FileFields
    BY DEF FilesSound, SameView, FileFields
  <2> HIDE DEF w
  <2>4. FilesSound(w)
    BY <2>2, <2>3 DEF FilesSound, SameView
  <2>5. Leaves(w, Load(w, id))
    BY <2>3, <2>4, LoadSound
  <2> QED BY <2>1, <2>3, <2>5 DEF Leaves, SameView
<1> QED BY <1>1, <1>2

LEMMA AtRow ==
  /\ \A f, i : FilesSound(f) /\ i \in Nat \ {0} => Leaves(f, [f EXCEPT !.tree = i])
  /\ \A f, i : FilesSound(f) /\ i \in Nat \ {0} => Leaves(f, [f EXCEPT !.list = i])
  /\ \A f, e : FilesSound(f) => FilesSound([f EXCEPT !.pane = e]) /\ [f EXCEPT !.pane = e].open = f.open
  /\ \A f, e : FilesSound(f) => FilesSound([f EXCEPT !.wide = e]) /\ [f EXCEPT !.wide = e].open = f.open
BY DEF Leaves, FilesSound, SameView, FileFields

LEMMA Unfolded ==
  \A f, e : FilesSound(f) /\ e \subseteq 1..Len(f.nodes) => Leaves(f, [f EXCEPT !.expanded = e])
BY ZenonT(60) DEF Leaves, FilesSound, SameView, FileFields

\* A repaint shows the selection of the focused panel.
LEMMA PaintSound ==
  ASSUME NEW f, FilesSound(f)
  PROVE  FilesSound(PaintFiles(f)) /\ FilesShow(PaintFiles(f)) /\ PaintFiles(f).open = f.open
<1> DEFINE w == InTree(f)
           x == Aimed(w)
           y == InList(x)
           z == Drawn(y)
           t == Bounded(f.tree, TreeRows(f))
           l == Bounded(x.list, Listing(x))
           sh == IF Panel(y) = <<>> THEN "" ELSE y.nodes[Panel(y)[At(y)]].name
<1>0. PaintFiles(f) = z
  BY DEF PaintFiles
<1>1. Leaves(f, w) /\ TreeRows(w) = TreeRows(f) /\ w.tree = t
  <2>1. w = [f EXCEPT !.tree = t]
    BY DEF InTree
  <2>2. t \in Nat \ {0}
    <3>1. TreeRows(f) \in Seq(1..Len(f.nodes)) /\ f.tree \in Nat \ {0}
      BY RowsOf DEF FilesSound
    <3> QED BY <3>1, BoundedIn
  <2> HIDE DEF t, w
  <2>3. Leaves(f, w)
    BY <2>1, <2>2, AtRow
  <2>4. w.nodes = f.nodes /\ w.layout = f.layout /\ w.expanded = f.expanded /\ w.tree = t
    BY <2>1 DEF FilesSound, FileFields
  <2> QED BY <2>3, <2>4 DEF TreeRows
<1>2. Leaves(w, x) /\ (~Split(w) => x = w)
  <2> HIDE DEF w, t
  <2>1. CASE Split(w) /\ TreeRows(w) # <<>>
    <3>1. x = FocusOn(w, TreeRows(w)[w.tree])
      BY <2>1 DEF Aimed
    <3>2. TreeRows(f) \in Seq(1..Len(w.nodes)) /\ f.tree \in Nat \ {0} /\ TreeRows(f) # <<>>
      BY <1>1, <2>1, RowsOf DEF FilesSound, Leaves
    <3>3. TreeRows(f)[Bounded(f.tree, TreeRows(f))] \in 1..Len(w.nodes)
      BY <3>2, BoundedIn
    <3>4. TreeRows(w)[w.tree] \in 1..Len(w.nodes)
      BY <3>3, <1>1 DEF t
    <3>5. FilesSound(w)
      BY <1>1 DEF Leaves
    <3> QED BY <2>1, <3>1, <3>4, <3>5, FocusSound
  <2>2. CASE ~(Split(w) /\ TreeRows(w) # <<>>)
    BY <2>2, <1>1 DEF Aimed, Leaves, SameView
  <2> QED BY <2>1, <2>2
<1>3. /\ Leaves(x, y) /\ y.list = l /\ y.tree = x.tree /\ y.nodes = x.nodes /\ y.dir = x.dir
      /\ y.expanded = x.expanded /\ y.layout = x.layout
  <2>1. y = [x EXCEPT !.list = l]
    BY DEF InList
  <2> HIDE DEF x, w, t
  <2>0. FilesSound(x)
    BY <1>2 DEF Leaves
  <2>2. l \in Nat \ {0}
    <3>1. Listing(x) \in Seq(1..Len(x.nodes)) /\ x.list \in Nat \ {0}
      BY <2>0, RowsOf DEF FilesSound
    <3> QED BY <3>1, BoundedIn
  <2> HIDE DEF l, y
  <2>3. Leaves(x, y)
    BY <2>0, <2>1, <2>2, AtRow
  <2> QED BY <2>0, <2>1, <2>3 DEF FilesSound, FileFields
<1>4. /\ DOMAIN z = FileFields /\ SameView(y, z) /\ z.shown = sh /\ z.list = y.list /\ z.tree = y.tree
      /\ z.nodes = y.nodes /\ z.dir = y.dir /\ z.expanded = y.expanded
      /\ z.loaded = y.loaded /\ z.asked = y.asked
  <2>1. z = [y EXCEPT !.shown = sh]
    BY DEF Drawn, Showing
  <2> HIDE DEF y, sh, z
  <2>2. DOMAIN y = FileFields
    BY <1>3 DEF Leaves, FilesSound
  <2> QED BY <2>1, <2>2 DEF FileFields, SameView
<1>s. Panel(y) # <<>> => sh = y.nodes[Panel(y)[At(y)]].name
  OBVIOUS
<1> HIDE DEF w, x, y, z, t, l, sh
<1>5. FilesSound(z) /\ z.open = f.open
  BY <1>1, <1>2, <1>3, <1>4 DEF Leaves, FilesSound, SameView
<1>6. TreeRows(z) = TreeRows(x) /\ TreeRows(y) = TreeRows(x) /\ Listing(z) = Listing(x) /\ Listing(y) = Listing(x)
  BY <1>3, <1>4 DEF TreeRows, Listing, SameView
<1>7. InListing(z) = InListing(y) /\ Split(z) = Split(w) /\ (InListing(z) <=> InListing(y))
  BY <1>2, <1>3, <1>4 DEF InListing, Split, SameView, Leaves
<1>8. Panel(z) = Panel(y) /\ At(z) = At(y)
  BY <1>4, <1>6, <1>7 DEF Panel, At
<1>9. FilesShow(z)
  <2>1. SUFFICES ASSUME InListing(z) \/ z.layout # "split", Panel(z) # <<>>
                 PROVE  Bounded(At(z), Panel(z)) = At(z) /\ z.shown = z.nodes[Panel(z)[At(z)]].name
    BY DEF FilesShow
  <2>2. z.shown = z.nodes[Panel(z)[At(z)]].name
    BY <2>1, <1>4, <1>8, <1>s
  <2>3. CASE InListing(z)
    <3>1. At(z) = l /\ Panel(z) = Listing(x)
      BY <2>3, <1>3, <1>4, <1>6 DEF At, Panel
    <3>2. FilesSound(x)
      BY <1>2 DEF Leaves
    <3>3. Listing(x) \in Seq(1..Len(x.nodes))
      BY <3>2, RowsOf
    <3>4. Bounded(l, Listing(x)) = l
      BY <3>3, BoundedIn DEF l
    <3> QED BY <2>2, <3>1, <3>4
  <2>4. CASE ~InListing(z)
    <3>1. ~Split(w)
      BY <2>1, <2>4, <1>7 DEF Split
    <3>2. x = w
      BY <3>1, <1>2
    <3>3. At(z) = t /\ Panel(z) = TreeRows(f)
      BY <2>4, <3>2, <1>1, <1>3, <1>4, <1>6 DEF At, Panel
    <3>4. TreeRows(f) \in Seq(1..Len(f.nodes))
      BY RowsOf
    <3>5. Bounded(t, TreeRows(f)) = t
      BY <3>4, BoundedIn DEF t
    <3> QED BY <2>2, <3>3, <3>5
  <2> QED BY <2>3, <2>4
<1> QED BY <1>0, <1>5, <1>9

\* Every repaint of a sound browser leaves a good one.
LEMMA RepaintGood ==
  ASSUME FilesGood, files.open, NEW f, FilesSound(f), RepaintFiles(f)
  PROVE  FilesGood' /\ picked' = picked
<1>3. \A w : FilesSound(w) => w.open
  BY DEF FilesSound
<1>1. files' = PaintFiles(f) /\ picked' = picked /\ picked = <<>>
  BY DEF RepaintFiles, FilesGood
<1>2. FilesSound(files') /\ FilesShow(files')
  BY <1>1, PaintSound
<1> QED BY <1>1, <1>2, <1>3 DEF FilesGood

LEMMA PointSound == ASSUME NEW f, FilesSound(f), NEW id PROVE FilesSound(PointAt(f, id))
<1> DEFINE rows == TreeRows(f)
           i == IF Contains(rows, id) THEN CHOOSE i \in 1..Len(rows) : rows[i] = id ELSE f.tree
<1>1. PointAt(f, id) = [f EXCEPT !.tree = i]
  BY DEF PointAt
<1>2. i \in Nat \ {0}
  <2>1. rows \in Seq(1..Len(f.nodes)) /\ f.tree \in Nat \ {0}
    BY RowsOf DEF FilesSound
  <2>2. Len(rows) \in Nat
    BY <2>1
  <2>3. CASE Contains(rows, id)
    <3>1. \E k \in 1..Len(rows) : rows[k] = id
      BY <2>3 DEF Contains
    <3>2. i \in 1..Len(rows)
      BY <2>3, <3>1
    <3> HIDE DEF i, rows
    <3> QED BY <2>2, <3>2
  <2>4. CASE ~Contains(rows, id)
    BY <2>1, <2>4
  <2> QED BY <2>3, <2>4
<1> HIDE DEF i
<1> QED BY <1>1, <1>2, AtRow DEF Leaves

LEMMA OpeningSound ==
  ASSUME NEW f, FilesSound(f), NEW id \in 1..Len(f.nodes), NEW always
  PROVE  FilesSound(Opening(f, id, always))
<1> DEFINE w == Load(f, id)
           e == IF always \/ id \notin w.expanded THEN w.expanded \cup {id} ELSE w.expanded \ {id}
<1>1. Opening(f, id, always) = [w EXCEPT !.expanded = e]
  BY DEF Opening
<1>2. FilesSound(w) /\ Len(f.nodes) <= Len(w.nodes)
  BY LoadSound DEF Leaves
<1>5. e \subseteq 1..Len(w.nodes)
  <2> HIDE DEF w
  <2>1. w.expanded \subseteq 1..Len(w.nodes) /\ Len(w.nodes) \in Nat /\ Len(f.nodes) \in Nat
    BY <1>2, SoundMeans
  <2>2. id \in 1..Len(w.nodes)
    BY <1>2, <2>1
  <2> QED BY <2>1, <2>2
<1> HIDE DEF w, e
<1>3. Leaves(w, [w EXCEPT !.expanded = e])
  BY <1>2, <1>5, Unfolded, Zenon
<1>4. FilesSound([w EXCEPT !.expanded = e])
  BY <1>3 DEF Leaves
<1> QED BY <1>1, <1>4

LEMMA SelectedIn ==
  ASSUME NEW f, FilesSound(f), Panel(f) # <<>>
  PROVE  Selected(f) \in 1..Len(f.nodes)
<1>1. Panel(f) \in Seq(1..Len(f.nodes)) /\ At(f) \in Nat \ {0}
  BY RowsOf DEF FilesSound, At
<1> QED BY <1>1, BoundedIn DEF Selected

LEMMA PanelRow ==
  ASSUME NEW f, FilesSound(f), NEW i \in 1..Len(Panel(f))
  PROVE  Panel(f)[i] \in 1..Len(f.nodes) /\ i \in Nat \ {0}
<1>1. Panel(f) \in Seq(1..Len(f.nodes))
  BY RowsOf
<1> DEFINE rows == Panel(f)
           Z == 1..Len(f.nodes)
<1> HIDE DEF rows, Z
<1>2. rows \in Seq(Z) /\ i \in 1..Len(rows)
  BY <1>1 DEF rows, Z
<1>3. rows[i] \in Z
  BY <1>2
<1>4. Len(rows) \in Nat
  BY <1>2
<1> QED BY <1>2, <1>3, <1>4 DEF rows, Z

LEMMA MovedSound == ASSUME NEW f, FilesSound(f), NEW i \in Nat \ {0} PROVE FilesSound(Moved(f, i))
BY AtRow DEF Moved, Leaves

\* What a pick tells is what was shown: in the tree of folders there is nothing to pick.
LEMMA PickShown ==
  ASSUME FilesGood, FilesPick
  PROVE  picked' = <<files.shown>> /\ files.shown \notin Folders \cup Disabled
<1> DEFINE rows == Panel(files)
           id == Selected(files)
<1>1. /\ FilesSound(files) /\ FilesShow(files) /\ picked = <<>> /\ rows # <<>>
      /\ ~IsFolder(files, id) /\ ~IsDisabled(files, id) /\ picked' = Append(picked, files.nodes[id].name)
  BY DEF FilesPick, FilesGood
<1>2. id = rows[Bounded(At(files), rows)]
  BY DEF Selected
<1>3. InListing(files) \/ files.layout # "split"
  <2>1. SUFFICES ASSUME ~InListing(files), files.layout = "split" PROVE FALSE
    OBVIOUS
  <2>2. rows \in Seq(Showable(files.nodes, TRUE))
    <3>1. TreeRows(files) \in Seq(Showable(files.nodes, files.layout = "split"))
      BY <1>1, RowsOf
    <3>2. (files.layout = "split") = TRUE
      BY <2>1
    <3> QED BY <2>1, <3>1, <3>2 DEF Panel
  <2>3. At(files) \in Nat \ {0}
    BY <1>1 DEF At, FilesSound
  <2>4. id \in Showable(files.nodes, TRUE)
    <3> HIDE DEF rows, id
    <3> QED BY <1>1, <1>2, <2>2, <2>3, BoundedIn
  <2> QED BY <1>1, <2>4 DEF Showable, IsFolder
<1>4. files.shown = files.nodes[id].name
  BY <1>1, <1>2, <1>3 DEF FilesShow
<1>5. Append(<<>>, files.shown) = <<files.shown>>
  OBVIOUS
<1> QED BY <1>1, <1>4, <1>5 DEF IsFolder, IsDisabled

\* Every key keeps the selections in the snapshot; a pick tells what was shown.
LEMMA FilesKeeps ==
  ASSUME FilesGood, FilesNext
  PROVE  FilesGood' /\ PicksWhatIsShown
<1>1. ASSUME files.open, NEW f, FilesSound(f), RepaintFiles(f) PROVE FilesGood' /\ PicksWhatIsShown
  BY <1>1, RepaintGood DEF PicksWhatIsShown
<1>2. ASSUME files.open PROVE FilesSound(files) /\ picked = <<>>
  BY <1>2 DEF FilesGood
<1>3. CASE FilesCancel
  <2>1. picked' = <<"">> /\ ~files'.open /\ NothingOpen(files')
    <3>1. picked' = Append(<<>>, "") /\ files' = FilesClosed(files)
      BY <1>2, <1>3 DEF FilesCancel
    <3>2. Append(<<>>, "") = <<"">>
      OBVIOUS
    <3> QED BY <3>1, <3>2 DEF FilesClosed, NothingOpen
  <2>2. Last(picked') = "" /\ Len(picked') = 1
    <3>1. Len(<<"">>) = 1 /\ <<"">>[1] = ""
      OBVIOUS
    <3> QED BY <2>1, <3>1 DEF Last
  <2> QED BY <2>1, <2>2 DEF FilesGood, PicksWhatIsShown
<1>4. CASE FilesTab
  BY <1>1, <1>2, <1>4, AtRow DEF FilesTab
<1>5. CASE FilesUp
  <2> DEFINE parent == files.nodes[files.dir].parent
             e == files.expanded \cup {parent}
             w == [files EXCEPT !.expanded = e]
             there == FocusOn(w, parent)
             f == IF parent = NoParent THEN files ELSE PointAt(there, parent)
  <2>1. files.open /\ FilesSound(files) /\ RepaintFiles(f)
    BY <1>2, <1>5 DEF FilesUp
  <2>2. CASE parent = NoParent
    <3>1. f = files
      BY <2>2
    <3> QED BY <1>1, <2>1, <3>1
  <2>3. CASE parent # NoParent
    <3>1. parent \in 1..Len(files.nodes)
      <4> DEFINE Q == [name : STRING, parent : Nat]
      <4>1. files.nodes \in Seq(Q) /\ files.dir \in 1..Len(files.nodes)
            /\ \A i \in 1..Len(files.nodes) : files.nodes[i].parent < i
        BY <2>1 DEF FilesSound, Rooted
      <4>2. files.nodes[files.dir] \in Q
        <5> HIDE DEF Q
        <5> QED BY <4>1
      <4>3. parent \in Nat /\ parent < files.dir /\ Len(files.nodes) \in Nat
        BY <4>1, <4>2
      <4> HIDE DEF parent
      <4> QED BY <4>1, <4>3, <2>3 DEF NoParent
    <3>2. FilesSound(w) /\ w.nodes = files.nodes
      <4>2. e \subseteq 1..Len(files.nodes)
        BY <2>1, <3>1 DEF FilesSound
      <4> HIDE DEF e
      <4>1. w.nodes = files.nodes
        BY <2>1 DEF FilesSound, FileFields
      <4> QED BY <2>1, <4>1, <4>2, Unfolded DEF Leaves
    <3> HIDE DEF w, parent
    <3>3. FilesSound(there)
      BY <3>1, <3>2, FocusSound DEF Leaves
    <3> HIDE DEF there
    <3>4. FilesSound(f)
      BY <2>3, <3>3, PointSound
    <3> HIDE DEF f
    <3> QED BY <1>1, <2>1, <3>4
  <2> QED BY <2>2, <2>3
<1>6. CASE FilesFold
  <2> DEFINE id == Selected(files)
             f == IF id \in files.expanded THEN [files EXCEPT !.expanded = files.expanded \ {id}]
                  ELSE PointAt(files, files.nodes[id].parent)
  <2>1. files.open /\ FilesSound(files) /\ RepaintFiles(f)
    BY <1>2, <1>6 DEF FilesFold
  <2>2. FilesSound(f)
    <3>1. files.expanded \ {id} \subseteq 1..Len(files.nodes)
      BY <2>1 DEF FilesSound
    <3> QED BY <2>1, <3>1, Unfolded, PointSound DEF Leaves
  <2> HIDE DEF f
  <2> QED BY <1>1, <2>1, <2>2
<1>7. CASE FilesPick
  <2>1. picked' = <<files.shown>> /\ files.shown \notin Folders \cup Disabled
    BY <1>7, PickShown
  <2>2. Last(picked') = files.shown /\ Len(picked') = 1
    <3>1. Len(<<files.shown>>) = 1 /\ <<files.shown>>[1] = files.shown
      OBVIOUS
    <3> QED BY <2>1, <3>1 DEF Last
  <2>3. ~files'.open /\ NothingOpen(files')
    BY <1>7 DEF FilesPick, FilesClosed, NothingOpen
  <2> QED BY <2>1, <2>2, <2>3 DEF FilesGood, PicksWhatIsShown
<1>8. CASE FilesResize
  BY <1>1, <1>2, <1>8, AtRow DEF FilesResize
<1>9. ASSUME NEW b, FilesOpenFolder(b) PROVE FilesGood' /\ PicksWhatIsShown
  <2> DEFINE id == Selected(files)
             o == Opening(files, id, b)
             f == IF InListing(files) THEN PointAt(FocusOn(o, id), id) ELSE o
  <2>1. files.open /\ FilesSound(files) /\ RepaintFiles(f) /\ Panel(files) # <<>>
    BY <1>2, <1>9 DEF FilesOpenFolder
  <2>2. id \in 1..Len(files.nodes)
    BY <2>1, SelectedIn
  <2>3. FilesSound(o)
    BY <2>1, <2>2, OpeningSound
  <2>4. id \in 1..Len(o.nodes)
    <3> DEFINE l == Load(files, id)
               e == IF b \/ id \notin l.expanded THEN l.expanded \cup {id} ELSE l.expanded \ {id}
    <3>1. o = [l EXCEPT !.expanded = e]
      BY DEF Opening
    <3>2. FilesSound(l) /\ Len(files.nodes) <= Len(l.nodes)
      BY <2>1, <2>2, LoadSound DEF Leaves
    <3> HIDE DEF l, e, o, id
    <3>3. o.nodes = l.nodes
      BY <3>1, <3>2, SoundMeans DEF FileFields
    <3>4. Len(l.nodes) \in Nat /\ Len(files.nodes) \in Nat
      BY <3>2, <2>1, SoundMeans
    <3> QED BY <2>2, <3>2, <3>3, <3>4
  <2> HIDE DEF o, id
  <2>5. FilesSound(FocusOn(o, id))
    BY <2>3, <2>4, FocusSound DEF Leaves
  <2>6. FilesSound(f)
    BY <2>3, <2>5, PointSound
  <2> HIDE DEF f
  <2> QED BY <1>1, <2>1, <2>6
<1>10. ASSUME NEW i, FilesSelect(i) PROVE FilesGood' /\ PicksWhatIsShown
  <2>1. files.open /\ FilesSound(files) /\ RepaintFiles(Moved(files, i)) /\ i \in 1..Len(Panel(files))
    BY <1>2, <1>10 DEF FilesSelect
  <2>2. i \in Nat \ {0}
    BY <2>1, PanelRow
  <2>3. FilesSound(Moved(files, i))
    BY <2>1, <2>2, MovedSound
  <2> QED BY <1>1, <2>1, <2>3
<1>11. ASSUME NEW b, NEW i, NEW c, FilesClick(b, i, c) PROVE FilesGood' /\ PicksWhatIsShown
  <2> DEFINE f == [files EXCEPT !.pane = b]
             w == Moved(f, i)
             o == Opening(w, Panel(f)[i], FALSE)
  <2>1. files.open /\ FilesSound(files) /\ i \in 1..Len(Panel(f)) /\ (RepaintFiles(w) \/ RepaintFiles(o))
    BY <1>2, <1>11 DEF FilesClick
  <2>2. FilesSound(f)
    BY <2>1, AtRow
  <2> HIDE DEF f
  <2>3. i \in Nat \ {0} /\ Panel(f)[i] \in 1..Len(f.nodes)
    BY <2>1, <2>2, PanelRow
  <2>4. FilesSound(w) /\ w.nodes = f.nodes
    <3>1. Moved(f, i).nodes = f.nodes
      BY <2>2 DEF Moved, FilesSound, FileFields
    <3> QED BY <2>2, <2>3, <3>1, MovedSound
  <2> HIDE DEF w
  <2>5. FilesSound(o)
    BY <2>3, <2>4, OpeningSound
  <2> HIDE DEF o
  <2> QED BY <1>1, <2>1, <2>4, <2>5
<1> QED BY <1>3, <1>4, <1>5, <1>6, <1>7, <1>8, <1>9, <1>10, <1>11 DEF FilesNext

LEMMA FilesStart == ASSUME FilesInit PROVE FilesGood
<1>1. PICK layout, wide :
        LET new == [FilesClosed([layout |-> layout, wide |-> wide])
                      EXCEPT !.open = TRUE, !.expanded = {FirstNode}, !.loaded = <<FALSE>>,
                             !.nodes = <<[name |-> TopFolder, parent |-> NoParent]>>]
        IN  files = PaintFiles(Load(new, FirstNode))
  BY DEF FilesInit
<1> DEFINE first == [name |-> TopFolder, parent |-> NoParent]
           nodes == <<first>>
           l == <<FALSE>>
           e == {FirstNode}
           closed == FilesClosed([layout |-> layout, wide |-> wide])
           new == [closed EXCEPT !.open = TRUE, !.expanded = e, !.loaded = l, !.nodes = nodes]
<1>2. Rooted(nodes) /\ Len(nodes) = 1
  <2>1. first \in [name : STRING, parent : Nat] /\ first.parent = 0
    BY FilesAssumption DEF NoParent
  <2> HIDE DEF first
  <2>2. nodes \in Seq([name : STRING, parent : Nat])
    BY <2>1
  <2>3. Len(nodes) = 1 /\ nodes[1] = first
    OBVIOUS
  <2>4. \A i \in 1..Len(nodes) : nodes[i].parent < i
    <3> HIDE DEF nodes
    <3> QED BY <2>1, <2>3
  <2> QED BY <2>2, <2>3, <2>4 DEF Rooted
<1>3. FilesSound(new)
  <2>1. /\ DOMAIN closed = FileFields /\ closed.tree = 1 /\ closed.list = 1 /\ closed.dir = 1
        /\ closed.asked = <<>>
    BY DEF FilesClosed, FileFields, FirstNode
  <2>6. OnceEach(1, l, <<>>)
    <3>1. l \in Seq(BOOLEAN) /\ Len(l) = 1 /\ Len(<<>>) = 0
      OBVIOUS
    <3>2. \A k \in 1..Len(<<>>) : l[<<>>[k]] = TRUE
      BY <3>1
    <3>3. IsInjective(<<>>)
      BY DEF IsInjective
    <3>4. <<>> \in Seq(1..1)
      OBVIOUS
    <3> HIDE DEF l
    <3> QED BY <3>1, <3>2, <3>3, <3>4 DEF OnceEach
  <2>7. e \subseteq 1..1
    BY DEF FirstNode
  <2> HIDE DEF closed, nodes, l, e
  <2>2. /\ DOMAIN new = FileFields /\ new.tree = 1 /\ new.list = 1 /\ new.dir = 1 /\ new.nodes = nodes
        /\ new.loaded = l /\ new.expanded = e /\ new.asked = <<>> /\ new.open
    BY <2>1 DEF FileFields
  <2> HIDE DEF new
  <2>3. 1 \in 1..Len(nodes)
    BY <1>2
  <2>4. Rooted(new.nodes) /\ new.dir \in 1..Len(new.nodes)
    BY <1>2, <2>2, <2>3
  <2>5. new.tree \in Nat \ {0} /\ new.list \in Nat \ {0}
    BY <2>2
  <2>8. OnceEach(Len(new.nodes), new.loaded, new.asked) /\ new.expanded \subseteq 1..Len(new.nodes)
    BY <1>2, <2>2, <2>6, <2>7
  <2> QED BY <2>2, <2>4, <2>5, <2>8 DEF FilesSound
<1>4. new.nodes = nodes
  <2>1. DOMAIN closed = FileFields
    BY DEF FilesClosed, FileFields
  <2> HIDE DEF closed, nodes, l, e
  <2> QED BY <2>1 DEF FileFields
<1>5. files = PaintFiles(Load(new, FirstNode)) /\ picked = <<>>
  BY <1>1 DEF FilesInit
<1> HIDE DEF new, nodes
<1>6. FirstNode \in 1..Len(new.nodes)
  BY <1>2, <1>4 DEF FirstNode
<1>7. FilesSound(Load(new, FirstNode))
  BY <1>3, <1>6, LoadSound DEF Leaves
<1>8. \A w : FilesSound(w) => w.open
  BY DEF FilesSound
<1> QED BY <1>5, <1>7, <1>8, PaintSound DEF FilesGood

\* Each node hangs below an earlier one, and each directory was asked for once.
LEMMA FilesMean == ASSUME FilesGood PROVE FilesTypeOK /\ LoadedOnce
<1>1. CASE files.open
  <2>1. FilesSound(files) /\ picked = <<>> /\ Len(<<>>) = 0
    BY <1>1 DEF FilesGood
  <2>2. \A i \in Ids(files) : files.nodes[i].parent < i
    BY <2>1 DEF FilesSound, Rooted, Ids
  <2>3. Len(files.loaded) = Len(files.nodes) /\ files.expanded \subseteq Ids(files) /\ IsInjective(files.asked)
    BY <2>1 DEF FilesSound, OnceEach, Ids
  <2> QED BY <1>1, <2>1, <2>2, <2>3 DEF FilesTypeOK, LoadedOnce
<1>2. CASE ~files.open
  <2>1. NothingOpen(files) /\ Len(picked) = 1
    BY <1>2 DEF FilesGood
  <2> QED BY <1>2, <2>1 DEF NothingOpen, FilesTypeOK, LoadedOnce, Ids, IsInjective
<1> QED BY <1>1, <1>2

-----------------------------------------------------------------------------
(* The device view: its drafts, and the row they are of.                    *)

ViewFields == {"active", "page", "selected", "section", "grid", "esc", "cr", "pixel", "group",
               "editing", "secret", "changed", "dialog", "menu", "focus", "choice", "key", "draft",
               "observed", "dirty", "full", "act", "drag", "closed", "schema"}
IsView(w) == DOMAIN w = ViewFields
Clean(w) == ~w.editing /\ w.secret = FALSE /\ ~w.dialog /\ ~w.menu /\ w.key = "" /\ w.draft = ""
\* The draft of w is x's.
Kept(w, x) ==
  /\ (x.editing <=> w.editing) /\ x.secret = w.secret /\ (x.dialog <=> w.dialog) /\ (x.menu <=> w.menu)
  /\ x.key = w.key /\ x.observed = w.observed /\ (x.draft = w.draft \/ w.editing)
\* A step on the view that opens no draft.
Held(w, x) == IsView(x) /\ (x.active <=> w.active) /\ (Kept(w, x) \/ Clean(x))
\* One that may open a draft, on the row it leaves the view at.
Opens(w, x, s) ==
  \/ Held(w, x)
  \/ IsView(x) /\ ~w.editing /\ x.editing /\ (x.active <=> w.active)
     /\ x.key = Row(x, s).key /\ x.secret = Row(x, s).secret /\ x.observed = RowHash(Row(x, s))

\* Two steps that open no draft open none.
LEMMA HeldTwice == \A w, x, y : Held(w, x) /\ Held(x, y) => Held(w, y)
<1> SUFFICES ASSUME NEW w, NEW x, NEW y, Held(w, x), Held(x, y) PROVE Held(w, y)
  OBVIOUS
<1>1. CASE Clean(y)
  BY <1>1 DEF Held
<1>2. CASE Kept(w, x) /\ Kept(x, y)
  BY <1>2 DEF Held, Kept
<1>3. CASE Clean(x) /\ Kept(x, y)
  BY <1>3 DEF Held, Kept, Clean
<1> QED BY <1>1, <1>2, <1>3 DEF Held
LEMMA HeldSame == \A w : IsView(w) => Held(w, w)
BY DEF Held, Kept
LEMMA HeldOpens == \A w, x, y, s : Held(w, x) /\ (w.editing => x.editing) /\ Opens(x, y, s) => Opens(w, y, s)
<1> SUFFICES ASSUME NEW w, NEW x, NEW y, NEW s, Held(w, x), w.editing => x.editing, Opens(x, y, s) PROVE Opens(w, y, s)
  OBVIOUS
<1>1. CASE Held(x, y)
  BY <1>1, HeldTwice DEF Opens
<1>2. CASE ~Held(x, y)
  BY <1>2 DEF Held, Opens
<1> QED BY <1>1, <1>2

LEMMA RepaintHeld == \A w : IsView(w) => Held(w, Repaint(w)) /\ Held(w, Dirty(w))
BY DEF Held, Kept, IsView, Repaint, Dirty, ViewFields

LEMMA CancelHeld == \A w, x : Held(w, x) => Held(w, Cancel(x))
BY ZenonT(60) DEF Held, Clean, IsView, Repaint, Cancel, ClearDraft, ViewFields

Stays(w, x) == Held(w, x) /\ (x.editing <=> w.editing) /\ x.act = w.act
LEMMA StaysTwice == \A w, x, y : Stays(w, x) /\ Stays(x, y) => Stays(w, y)
BY HeldTwice DEF Stays

LEMMA SyncSectionsStays == \A w, s : IsView(w) => Stays(w, SyncSections(w, s))
<1>1. ASSUME NEW w, IsView(w), NEW s PROVE Stays(w, KnowsRows(w, s))
  BY <1>1 DEF KnowsRows, Stays, Held, Kept, IsView, Repaint, ViewFields
<1>2. ASSUME NEW w, IsView(w), NEW s PROVE Stays(w, InTable(w, s))
  BY <1>2 DEF InTable, Stays, Held, Kept, IsView, ViewFields
<1>3. ASSUME NEW w, IsView(w), NEW s PROVE Stays(w, OnHeading(w, s))
  BY <1>3 DEF OnHeading, Stays, Held, Kept, IsView, ViewFields
<1>4. ASSUME NEW w, IsView(w), NEW s PROVE Stays(w, OutOfClosed(w, s))
  BY <1>4 DEF OutOfClosed, Stays, Held, Kept, IsView, ViewFields
<1> SUFFICES ASSUME NEW w, IsView(w), NEW s PROVE Stays(w, SyncSections(w, s))
  OBVIOUS
<1>5. Stays(w, InTable(KnowsRows(w, s), s))
  BY <1>1, <1>2, StaysTwice DEF Stays, Held
<1>6. Stays(w, OnHeading(InTable(KnowsRows(w, s), s), s))
  BY <1>3, <1>5, StaysTwice DEF Stays, Held
<1>7. Stays(w, OutOfClosed(OnHeading(InTable(KnowsRows(w, s), s), s), s))
  BY <1>4, <1>6, StaysTwice DEF Stays, Held
<1> QED BY <1>7 DEF SyncSections

LEMMA ToggleSectionHeld == \A w, s, how : IsView(w) => Held(w, ToggleSection(w, s, how))
BY DEF ToggleSection, Held, Kept, IsView, Repaint, ViewFields

LEMMA NextPageHeld == \A w, s, d : IsView(w) => Held(w, NextPage(w, s, d))
<1>1. ASSUME NEW w, IsView(w), NEW p, NEW g
      PROVE  Held(w, Repaint([w EXCEPT !.page = p, !.selected = 1, !.section = FALSE, !.grid = g]))
  BY <1>1 DEF Held, Kept, IsView, Repaint, ViewFields
<1> QED BY <1>1, Zenon DEF NextPage

LEMMA PixelHeld ==
  \A w, s : IsView(w) => Held(w, SyncPixel(w, s)) /\ Held(w, PixelAction(w, s))
<1>1. ASSUME NEW w, IsView(w), NEW p PROVE Held(w, [w EXCEPT !.pixel = p])
  BY <1>1 DEF Held, Kept, IsView, ViewFields
<1>2. ASSUME NEW w, IsView(w), NEW a PROVE Held(w, [w EXCEPT !.act = a])
  BY <1>2 DEF Held, Kept, IsView, ViewFields
<1>3. ASSUME NEW w, IsView(w), NEW s PROVE Held(w, SyncPixel(w, s))
  BY <1>1, <1>3, Zenon DEF SyncPixel
<1> SUFFICES ASSUME NEW w, IsView(w), NEW s PROVE Held(w, SyncPixel(w, s)) /\ Held(w, PixelAction(w, s))
  OBVIOUS
<1> DEFINE x == SyncPixel(w, s)
<1>4. Held(w, x) /\ IsView(x)
  BY <1>3 DEF Held
<1> HIDE DEF x
<1>5. Held(x, [x EXCEPT !.act = [type |-> "pixel", index |-> x.pixel, layout |-> s.groups,
                     count |-> IF x.group THEN s.groups[GroupAt(s, x.pixel)] ELSE 1]])
  BY <1>2, <1>4, Zenon
<1>6. Held(x, PixelAction(w, s))
  BY <1>5, Zenon DEF PixelAction, x
<1> QED BY <1>4, <1>6, HeldTwice DEF x

LEMMA StepPixelHeld == \A w, s, d : IsView(w) => Held(w, StepPixel(w, s, d))
<1> SUFFICES ASSUME NEW w, IsView(w), NEW s, NEW d PROVE Held(w, StepPixel(w, s, d))
  OBVIOUS
<1>1. ASSUME NEW x, IsView(x), NEW p PROVE Held(x, Dirty([x EXCEPT !.pixel = p]))
  BY <1>1 DEF Held, Kept, IsView, Dirty, ViewFields
<1> DEFINE x == SyncPixel(w, s)
<1>2. Held(w, x) /\ IsView(x)
  BY PixelHeld DEF Held
<1> HIDE DEF x
<1>3. ASSUME NEW p PROVE Held(x, PixelAction(Dirty([x EXCEPT !.pixel = p]), s))
  <2> DEFINE y == Dirty([x EXCEPT !.pixel = p])
  <2>1. Held(x, y) /\ IsView(y)
    BY <1>1, <1>2 DEF Held
  <2> HIDE DEF y
  <2>2. Held(y, PixelAction(y, s))
    BY <2>1, PixelHeld
  <2>3. Held(x, PixelAction(y, s))
    BY <2>1, <2>2, HeldTwice
  <2> QED BY <2>3 DEF y
<1>4. Held(x, Dirty(x))
  BY <1>2, RepaintHeld
<1>5. Held(x, StepPixel(w, s, d))
  BY <1>3, <1>4, Zenon DEF StepPixel, x
<1> QED BY <1>2, <1>5, HeldTwice

LEMMA JumpPixelHeld == \A w, s, k : IsView(w) => Held(w, JumpPixel(w, s, k))
<1> SUFFICES ASSUME NEW w, IsView(w), NEW s, NEW k PROVE Held(w, JumpPixel(w, s, k))
  OBVIOUS
<1>1. ASSUME NEW x, IsView(x), NEW p PROVE Held(x, [x EXCEPT !.pixel = p, !.dirty = TRUE])
  BY <1>1 DEF Held, Kept, IsView, ViewFields
<1> DEFINE x == SyncPixel(w, s)
           z == [x EXCEPT !.pixel = IF k = "H" THEN 0 ELSE PixelsOf(s) - 1, !.dirty = TRUE]
           y == SyncPixel(z, s)
<1>2. Held(w, x) /\ IsView(x)
  BY PixelHeld DEF Held
<1>3. Held(x, z) /\ IsView(z)
  <2> HIDE DEF x
  <2> QED BY <1>1, <1>2 DEF Held
<1>4. Held(w, z)
  <2> HIDE DEF x, z
  <2> QED BY <1>2, <1>3, HeldTwice
<1>5. Held(w, y) /\ IsView(y)
  <2> HIDE DEF z
  <2>1. Held(z, y)
    BY <1>3, PixelHeld
  <2> HIDE DEF y
  <2> QED BY <1>4, <2>1, HeldTwice DEF Held
<1>6. Held(w, PixelAction(y, s))
  <2> HIDE DEF y
  <2>1. Held(y, PixelAction(y, s))
    BY <1>5, PixelHeld
  <2> QED BY <1>5, <2>1, HeldTwice
<1>7. JumpPixel(w, s, k) = IF y.pixel = x.pixel THEN y ELSE PixelAction(y, s)
  BY Zenon DEF JumpPixel
<1> HIDE DEF x, y, z
<1> QED BY <1>5, <1>6, <1>7

LEMMA AdjustHeld == \A w, s, key : IsView(w) => Held(w, Adjust(w, s, key))
<1>1. ASSUME NEW w, IsView(w), NEW a PROVE Held(w, Dirty([w EXCEPT !.act = a]))
  BY <1>1 DEF Held, Kept, IsView, Dirty, ViewFields
<1> QED BY <1>1, HeldSame, Zenon DEF Adjust

LEMMA ValidateChoiceHeld == \A w, s : IsView(w) => Held(w, ValidateChoice(w, s))
BY HeldSame, CancelHeld, Zenon DEF ValidateChoice

LEMMA ChoiceKeyHeld == \A w, s, b : IsView(w) /\ w.editing => Held(w, ChoiceKey(w, s, b))
<1>1. ASSUME NEW w, IsView(w), w.editing, NEW s, NEW c PROVE Held(w, Choose(w, s, c))
  <2>1. ASSUME NEW d, NEW e
        PROVE  Held(w, Repaint([w EXCEPT !.choice = c, !.draft = d, !.changed = e]))
    BY <1>1 DEF Held, Kept, IsView, Repaint, ViewFields
  <2> QED BY <2>1, Zenon DEF Choose
<1>2. ASSUME NEW w, IsView(w) PROVE Held(w, Cancel(w)) /\ Held(w, w)
  BY <1>2, HeldSame, CancelHeld
<1> QED BY <1>1, <1>2, Zenon DEF ChoiceKey

LEMMA ApplyHeld == \A w, s : IsView(w) => Held(w, Apply(w, s))
<1>1. ASSUME NEW w, IsView(w), NEW a PROVE Held(w, Cancel([w EXCEPT !.act = a]))
  <2>1. Held(w, [w EXCEPT !.act = a])
    BY <1>1 DEF Held, Kept, IsView, ViewFields
  <2> QED BY <2>1, CancelHeld
<1>2. ASSUME NEW w, IsView(w) PROVE Held(w, Cancel(w)) /\ Held(w, Repaint(w))
  BY <1>2, HeldSame, CancelHeld, RepaintHeld
<1> QED BY <1>1, <1>2, Zenon DEF Apply

LEMMA EditHeld == \A w, s, b, d : IsView(w) /\ w.editing => Held(w, Edit(w, s, b, d))
<1> SUFFICES ASSUME NEW w, IsView(w), w.editing, NEW s, NEW b, NEW d PROVE Held(w, Edit(w, s, b, d))
  OBVIOUS
<1>1. ASSUME NEW f PROVE Held(w, Repaint([w EXCEPT !.focus = f]))
  BY <1>1 DEF Held, Kept, IsView, Repaint, ViewFields
<1>2. Held(w, Dirty([w EXCEPT !.draft = d, !.changed = TRUE]))
  BY DEF Held, Kept, IsView, Dirty, ViewFields
<1>3. ASSUME NEW c PROVE Held(w, Apply([w EXCEPT !.cr = c], s))
  <2> DEFINE x == [w EXCEPT !.cr = c]
  <2>1. Held(w, x) /\ IsView(x)
    BY DEF Held, Kept, IsView, ViewFields
  <2> HIDE DEF x
  <2>2. Held(w, Apply(x, s))
    BY <2>1, ApplyHeld, HeldTwice
  <2> QED BY <2>2 DEF x
<1>4. Held(w, ChoiceKey(w, s, b)) /\ Held(w, Cancel(w)) /\ Held(w, w)
  BY HeldSame, CancelHeld, ChoiceKeyHeld
<1> QED BY <1>1, <1>2, <1>3, <1>4, Zenon DEF Edit

LEMMA MoveItemHeld == \A w, s, k : IsView(w) => Held(w, MoveItem(w, s, k))
<1>1. ASSUME NEW w, IsView(w), NEW a, NEW h PROVE Held(w, Dirty([w EXCEPT !.selected = a, !.section = h]))
  BY <1>1 DEF Held, Kept, IsView, Dirty, ViewFields
<1>2. ASSUME NEW w, IsView(w), NEW items, NEW f, NEW k PROVE Held(w, GoTo(w, items, f, k))
  BY <1>1, <1>2, HeldSame, Zenon DEF GoTo
<1> QED BY <1>2, Zenon DEF MoveItem

LEMMA ArrowHeld == \A w, s, k : IsView(w) => Held(w, Arrow(w, s, k))
<1> SUFFICES ASSUME NEW w, IsView(w), NEW s, NEW k PROVE Held(w, Arrow(w, s, k))
  OBVIOUS
<1>1. ASSUME NEW a PROVE Held(w, Dirty([w EXCEPT !.selected = a]))
  BY <1>1 DEF Held, Kept, IsView, Dirty, ViewFields
<1>2. Held(w, Dirty(w)) /\ (w.editing => Held(w, ChoiceKey(w, s, k)))
  BY RepaintHeld, ChoiceKeyHeld
<1>3. /\ \A d : Held(w, StepPixel(w, s, d)) /\ Held(w, NextPage(w, s, d)) /\ Held(w, Adjust(w, s, d))
      /\ \A d : Held(w, ToggleSection(w, s, d))
      /\ Held(w, JumpPixel(w, s, k)) /\ Held(w, MoveItem(w, s, k))
  BY StepPixelHeld, NextPageHeld, AdjustHeld, ToggleSectionHeld, JumpPixelHeld, MoveItemHeld
<1> QED BY <1>1, <1>2, <1>3, Zenon DEF Arrow

\* A draft is opened on the row the cursor is on.
LEMMA OpenOpens == \A w, s, dialog : IsView(w) /\ ~w.editing => Opens(w, Open(w, s, dialog), s)
<1> SUFFICES ASSUME NEW w, IsView(w), ~w.editing, NEW s, NEW dialog PROVE Opens(w, Open(w, s, dialog), s)
  OBVIOUS
<1>1. Opens(w, Dirty(w), s)
  BY RepaintHeld DEF Opens
<1>2. ASSUME NEW d, NEW m, NEW n, NEW c
      PROVE  Opens(w, Repaint([w EXCEPT !.key = Row(w, s).key, !.secret = Row(w, s).secret, !.observed = RowHash(Row(w, s)),
                    !.draft = d, !.editing = TRUE, !.changed = FALSE, !.menu = m, !.dialog = n, !.choice = c]), s)
  <2> DEFINE key == Row(w, s).key
             secret == Row(w, s).secret
             hash == RowHash(Row(w, s))
             x == Repaint([w EXCEPT !.key = key, !.secret = secret, !.observed = hash,
                    !.draft = d, !.editing = TRUE, !.changed = FALSE, !.menu = m, !.dialog = n, !.choice = c])
  <2>1. Row(x, s) = Row(w, s)
    BY DEF Row, Rows, Repaint, IsView, ViewFields
  <2> HIDE DEF key, secret, hash
  <2>2. /\ IsView(x) /\ x.editing /\ (x.active <=> w.active)
        /\ x.key = key /\ x.secret = secret /\ x.observed = hash
    BY DEF Repaint, IsView, ViewFields
  <2> HIDE DEF x
  <2>3. Opens(w, x, s)
    BY <2>1, <2>2 DEF Opens, key, secret, hash
  <2> QED BY <2>3, Zenon DEF x, key, secret, hash
<1> DEFINE r == Row(w, s)
           listed == r.kind = "choice" /\ ~r.secret /\ r.options # <<>>
           both == listed \/ dialog
           at == SelectInSeq(r.options, LAMBDA o : o = r.value)
           x == Repaint([w EXCEPT !.key = Row(w, s).key, !.secret = Row(w, s).secret, !.observed = RowHash(r),
                    !.draft = IF r.secret THEN "" ELSE r.value, !.editing = TRUE,
                    !.changed = FALSE, !.menu = listed, !.dialog = both,
                    !.choice = IF listed /\ at > 0 THEN at ELSE 1])
<1>3. Open(w, s, dialog) = IF ~HasRow(w, s) THEN Dirty(w) ELSE IF ~Changeable(r) THEN Dirty(w) ELSE x
  BY Zenon DEF Open
<1>4. Opens(w, x, s)
  <2> HIDE DEF listed, both
  <2> QED BY <1>2, ZenonT(60)
<1> HIDE DEF x
<1> QED BY <1>1, <1>3, <1>4, Zenon

LEMMA EnterOpens == \A w, s, dialog : IsView(w) /\ ~w.editing => Opens(w, Enter(w, s, dialog), s)
<1> SUFFICES ASSUME NEW w, IsView(w), ~w.editing, NEW s, NEW dialog PROVE Opens(w, Enter(w, s, dialog), s)
  OBVIOUS
<1>1. Held(w, ToggleSection(w, s, "flip")) /\ Held(w, w)
  BY ToggleSectionHeld, HeldSame
<1> DEFINE x == IF w.page = "pixel" THEN SyncPixel(w, s) ELSE w
<1>2. Held(w, x) /\ IsView(x)
  BY <1>1, PixelHeld DEF Held
<1> HIDE DEF x
<1>3. ~x.editing
  BY <1>2 DEF Held, Kept, Clean
<1>4. Opens(w, Open(x, s, dialog), s)
  BY <1>2, <1>3, HeldOpens, OpenOpens
<1>5. Held(x, Dirty([x EXCEPT !.grid = FALSE])) /\ Held(x, PixelAction(x, s))
  BY <1>2, PixelHeld DEF Held, Kept, IsView, Dirty, ViewFields
<1>6. Held(w, Dirty([x EXCEPT !.grid = FALSE])) /\ Held(w, PixelAction(x, s))
  <2>1. \A y : Held(x, y) => Held(w, y)
    BY <1>2, HeldTwice
  <2> QED BY <1>5, <2>1, Zenon
<1>7. \A y : Held(w, y) => Opens(w, y, s)
  BY DEF Opens
<1> QED BY <1>1, <1>4, <1>6, <1>7, Zenon DEF Enter, x

LEMMA StartDialogOpens == \A w, s : IsView(w) => Opens(w, StartDialog(w, s), s)
<1> SUFFICES ASSUME NEW w, IsView(w), NEW s PROVE Opens(w, StartDialog(w, s), s)
  OBVIOUS
<1>1. Opens(w, w, s)
  BY HeldSame DEF Opens
<1>2. ASSUME ~w.editing PROVE Opens(w, Enter([w EXCEPT !.cr = FALSE], s, TRUE), s)
  <2> DEFINE x == [w EXCEPT !.cr = FALSE]
  <2>1. Held(w, x) /\ IsView(x) /\ ~x.editing
    BY <1>2 DEF Held, Kept, IsView, ViewFields
  <2> HIDE DEF x
  <2>2. Opens(w, Enter(x, s, TRUE), s)
    BY <1>2, <2>1, EnterOpens, HeldOpens
  <2> QED BY <2>2 DEF x
<1> QED BY <1>1, <1>2, Zenon DEF StartDialog

\* What the choice menu is checked against does not depend on the last request.
Alike(w, x) ==
  /\ IsView(w) /\ IsView(x)
  /\ w.page = x.page /\ w.selected = x.selected /\ w.section = x.section
  /\ w.closed = x.closed /\ w.schema = x.schema
  /\ w.menu = x.menu /\ w.editing = x.editing /\ w.key = x.key
  /\ w.choice = x.choice /\ w.observed = x.observed

LEMMA AlikeReads ==
  ASSUME NEW w, NEW x, Alike(w, x), NEW s
  PROVE  /\ Rows(w, s) = Rows(x, s) /\ Row(w, s) = Row(x, s) /\ Schema(w, s) = Schema(x, s)
         /\ HasRow(w, s) <=> HasRow(x, s)
         /\ ChoiceHolds(w, s) <=> ChoiceHolds(x, s)
         /\ \A i : StartOf(w, s, i) = StartOf(x, s, i)
         /\ \A i : SectionStart(w, s, i) <=> SectionStart(x, s, i)
         /\ \A i : Hidden(w, s, i) <=> Hidden(x, s, i)
<1>1. Rows(w, s) = Rows(x, s)
  BY DEF Alike, Rows
<1>2. Row(w, s) = Row(x, s) /\ Schema(w, s) = Schema(x, s)
  BY <1>1 DEF Alike, Row, Schema
<1>3. HasRow(w, s) <=> HasRow(x, s)
  BY <1>1 DEF Alike, HasRow
<1>4. ChoiceHolds(w, s) <=> ChoiceHolds(x, s)
  BY <1>2, <1>3 DEF Alike, ChoiceHolds
<1>5. \A i : SectionStart(w, s, i) <=> SectionStart(x, s, i)
  BY <1>1, Zenon DEF SectionStart
<1>6. \A i : StartOf(w, s, i) = StartOf(x, s, i)
  BY <1>1, Zenon DEF StartOf
<1>7. \A i : Hidden(w, s, i) <=> Hidden(x, s, i)
  BY <1>5, <1>6, Zenon DEF Alike, Hidden
<1> QED BY <1>1, <1>2, <1>3, <1>4, <1>5, <1>6, <1>7

LEMMA AlikeSynced == \A w, x, s : Alike(w, x) => Alike(SyncSections(w, s), SyncSections(x, s))
<1>1. ASSUME NEW w, NEW x, Alike(w, x), NEW s PROVE Alike(KnowsRows(w, s), KnowsRows(x, s))
  <2>1. Schema(w, s) = Schema(x, s)
    BY <1>1, AlikeReads
  <2> QED BY <1>1, <2>1 DEF Alike, KnowsRows, Repaint, IsView, ViewFields
<1>2. ASSUME NEW w, NEW x, Alike(w, x), NEW s PROVE Alike(InTable(w, s), InTable(x, s))
  <2>1. Rows(w, s) = Rows(x, s)
    BY <1>2, AlikeReads
  <2> QED BY <1>2, <2>1 DEF Alike, InTable, IsView, ViewFields
<1>3. ASSUME NEW w, NEW x, Alike(w, x), NEW s PROVE Alike(OnHeading(w, s), OnHeading(x, s))
  <2>1. Rows(w, s) = Rows(x, s) /\ (SectionStart(w, s, w.selected) <=> SectionStart(x, s, x.selected))
    BY <1>3, AlikeReads DEF Alike
  <2> QED BY <1>3, <2>1 DEF Alike, OnHeading, IsView, ViewFields
<1>4. ASSUME NEW w, NEW x, Alike(w, x), NEW s PROVE Alike(OutOfClosed(w, s), OutOfClosed(x, s))
  <2>1. /\ Rows(w, s) = Rows(x, s) /\ (Hidden(w, s, w.selected) <=> Hidden(x, s, x.selected))
        /\ StartOf(w, s, w.selected) = StartOf(x, s, x.selected)
    BY <1>4, AlikeReads DEF Alike
  <2> QED BY <1>4, <2>1 DEF Alike, OutOfClosed, IsView, ViewFields
<1> SUFFICES ASSUME NEW w, NEW x, Alike(w, x), NEW s PROVE Alike(SyncSections(w, s), SyncSections(x, s))
  OBVIOUS
<1>5. Alike(InTable(KnowsRows(w, s), s), InTable(KnowsRows(x, s), s))
  BY <1>1, <1>2
<1>6. Alike(OnHeading(InTable(KnowsRows(w, s), s), s), OnHeading(InTable(KnowsRows(x, s), s), s))
  BY <1>3, <1>5
<1>7. Alike(OutOfClosed(OnHeading(InTable(KnowsRows(w, s), s), s), s), OutOfClosed(OnHeading(InTable(KnowsRows(x, s), s), s), s))
  BY <1>4, <1>6
<1> QED BY <1>7 DEF SyncSections

\* A view brought in line with its snapshot; a draft is still open in it unless its
\* choice menu is gone.
LEMMA SyncedHeld ==
  ASSUME NEW u, NEW s, IsView(u)
  PROVE  /\ Held(u, Synced(u, s))
         /\ ChoiceHolds(SyncSections(u, s), s) /\ u.editing => Synced(u, s).editing
         /\ Synced(u, s).act = None
<1> DEFINE w == [u EXCEPT !.act = None]
           x == SyncSections(w, s)
           y == ValidateChoice(x, s)
<1>1. Held(u, w) /\ Alike(u, w) /\ w.act = None
  BY DEF Held, Kept, Alike, IsView, ViewFields
<1> HIDE DEF w
<1>2. Held(w, x) /\ IsView(w) /\ (x.editing <=> w.editing) /\ x.act = None
  BY <1>1, SyncSectionsStays DEF Stays, Held
<1>3. Alike(SyncSections(u, s), x)
  BY <1>1, AlikeSynced
<1> HIDE DEF x
<1>4. Held(u, x) /\ IsView(x)
  BY <1>1, <1>2, HeldTwice DEF Held
<1>5. Held(u, y)
  BY <1>4, ValidateChoiceHeld, HeldTwice
<1>6. ASSUME ChoiceHolds(SyncSections(u, s), s), u.editing PROVE y.editing
  <2>1. ChoiceHolds(x, s)
    BY <1>3, <1>6, AlikeReads
  <2>2. x.editing
    BY <1>1, <1>2, <1>6 DEF Alike
  <2> QED BY <2>1, <2>2, <1>6 DEF ValidateChoice
<1>7. y = Synced(u, s)
  BY Zenon DEF Synced, x, w
<1>8. y.act = None
  BY <1>2, <1>4 DEF ValidateChoice, Cancel, ClearDraft, Repaint, IsView, ViewFields
<1> QED BY <1>5, <1>6, <1>7, <1>8

\* The view stops, and had no draft.
Stops(w, x) == IsView(x) /\ Kept(w, x) /\ ~w.editing

LEMMA KeyOpens == \A w, s, b : IsView(w) /\ ~w.editing => Opens(w, Key(w, s, b), s)
<1> SUFFICES ASSUME NEW w, IsView(w), ~w.editing, NEW s, NEW b PROVE Opens(w, Key(w, s, b), s)
  OBVIOUS
<1> DEFINE x == IF w.page = "pixel" /\ Available("pixel", s) THEN SyncPixel(w, s) ELSE w
<1>1. Held(w, x) /\ IsView(x)
  BY PixelHeld, HeldSame DEF Held
<1> HIDE DEF x
<1>2. ~x.editing
  BY <1>1 DEF Held, Kept, Clean
<1>3. \A y : Held(w, y) => Opens(w, y, s)
  BY DEF Opens
<1>4. \A y : Held(x, y) => Opens(w, y, s)
  BY <1>1, <1>3, HeldTwice
<1>5. ASSUME NEW a PROVE Held(w, [w EXCEPT !.act = a]) /\ Held(x, [x EXCEPT !.act = a])
  BY <1>1 DEF Held, Kept, IsView, ViewFields
<1>6. ASSUME NEW g PROVE Held(x, Repaint([x EXCEPT !.grid = g]))
  BY <1>1 DEF Held, Kept, IsView, Repaint, ViewFields
<1>7. ASSUME NEW g PROVE Opens(w, Dirty(SyncPixel([x EXCEPT !.group = g], s)), s)
  <2> DEFINE y == [x EXCEPT !.group = g]
  <2>1. Held(x, y) /\ IsView(y)
    BY <1>1 DEF Held, Kept, IsView, ViewFields
  <2> HIDE DEF y
  <2> DEFINE z == SyncPixel(y, s)
  <2>2. Held(x, z) /\ IsView(z)
    BY <2>1, PixelHeld, HeldTwice DEF Held
  <2> HIDE DEF z
  <2>3. Held(x, Dirty(z))
    BY <2>2, RepaintHeld, HeldTwice
  <2>4. Opens(w, Dirty(z), s)
    BY <1>4, <2>3
  <2> QED BY <2>4, Zenon DEF y, z
<1>8. ASSUME NEW c PROVE Opens(w, Enter([x EXCEPT !.cr = c], s, FALSE), s)
  <2> DEFINE y == [x EXCEPT !.cr = c]
  <2>1. Held(x, y) /\ IsView(y) /\ ~y.editing
    BY <1>1, <1>2 DEF Held, Kept, IsView, ViewFields
  <2> HIDE DEF y
  <2>2. Held(w, y) /\ Opens(y, Enter(y, s, FALSE), s)
    BY <1>1, <2>1, HeldTwice, EnterOpens
  <2>3. Opens(w, Enter(y, s, FALSE), s)
    BY <2>2, HeldOpens
  <2> QED BY <2>3, Zenon DEF y
<1>9. /\ Held(w, NextPage(w, s, 1)) /\ Held(w, Dirty(w)) /\ Held(w, w)
      /\ Held(x, Dirty(x)) /\ Held(x, x) /\ Held(x, StepPixel(x, s, 1)) /\ Held(x, StepPixel(x, s, -1))
  BY <1>1, NextPageHeld, RepaintHeld, HeldSame, StepPixelHeld
<1>10. /\ \A a : Opens(w, [w EXCEPT !.act = a], s) /\ Opens(w, [x EXCEPT !.act = a], s)
       /\ \A a : Opens(w, Repaint([x EXCEPT !.grid = a]), s)
  BY <1>3, <1>4, <1>5, <1>6
<1>11. /\ Opens(w, NextPage(w, s, 1), s) /\ Opens(w, Dirty(w), s) /\ Opens(w, w, s)
       /\ Opens(w, Dirty(x), s) /\ Opens(w, x, s) /\ Opens(w, StepPixel(x, s, 1), s) /\ Opens(w, StepPixel(x, s, -1), s)
  BY <1>3, <1>4, <1>9
<1> QED BY <1>7, <1>8, <1>10, <1>11, Zenon DEF Key, GameKey, x

LEMMA PlainOpens ==
  \A w, s, b, d : IsView(w) => Opens(w, Plain(w, s, b, d), s) \/ Stops(w, Plain(w, s, b, d))
<1> SUFFICES ASSUME NEW w, IsView(w), NEW s, NEW b, NEW d
             PROVE  Opens(w, Plain(w, s, b, d), s) \/ Stops(w, Plain(w, s, b, d))
  OBVIOUS
<1>1. \A y : Held(w, y) => Opens(w, y, s)
  BY DEF Opens
<1>2. Held(w, [w EXCEPT !.esc = 1])
  BY DEF Held, Kept, IsView, ViewFields
<1>3. ASSUME ~w.editing, NEW a PROVE Stops(w, [w EXCEPT !.active = FALSE, !.act = a])
  BY <1>3 DEF Stops, Kept, IsView, ViewFields
<1>4. ASSUME NEW c PROVE Held(w, [ToggleSection(w, s, "flip") EXCEPT !.cr = c])
  <2> DEFINE x == ToggleSection(w, s, "flip")
  <2>1. Held(w, x) /\ IsView(x)
    BY ToggleSectionHeld DEF Held
  <2> HIDE DEF x
  <2>2. Held(x, [x EXCEPT !.cr = c])
    BY <2>1 DEF Held, Kept, IsView, ViewFields
  <2>3. Held(w, [x EXCEPT !.cr = c])
    BY <2>1, <2>2, HeldTwice
  <2> QED BY <2>3, Zenon DEF x
<1>5. /\ Held(w, w) /\ Held(w, Cancel(w)) /\ Held(w, Repaint(w)) /\ Held(w, Adjust(w, s, b))
      /\ w.editing => Held(w, Edit(w, s, b, d))
      /\ ~w.editing => Opens(w, Key(w, s, b), s)
  BY HeldSame, CancelHeld, RepaintHeld, AdjustHeld, EditHeld, KeyOpens
<1> QED BY <1>1, <1>2, <1>3, <1>4, <1>5, Zenon DEF Plain

LEMMA FinalOpens == \A w, s, b, d : IsView(w) => Opens(w, Final(w, s, b, d), s)
<1> SUFFICES ASSUME NEW w, IsView(w), NEW s, NEW b, NEW d PROVE Opens(w, Final(w, s, b, d), s)
  OBVIOUS
<1>1. \A y : Held(w, y) => Opens(w, y, s)
  BY DEF Opens
<1>2. /\ Held(w, w) /\ Held(w, NextPage(w, s, -1)) /\ Held(w, Arrow(w, s, b)) /\ Held(w, Arrow(w, s, "Z"))
      /\ w.editing => Held(w, Edit(w, s, "text", d))
      /\ Opens(w, StartDialog(w, s), s)
  BY HeldSame, NextPageHeld, ArrowHeld, EditHeld, StartDialogOpens
<1> QED BY <1>1, <1>2, Zenon DEF Final

LEMMA PressRowOpens ==
  \A x, s, e : IsView(x) /\ ~x.editing => \A z \in PressRow(x, s, e) : Opens(x, z, s)
<1> SUFFICES ASSUME NEW x, IsView(x), ~x.editing, NEW s, NEW e, NEW z \in PressRow(x, s, e) PROVE Opens(x, z, s)
  OBVIOUS
<1>1. \A y : Held(x, y) => Opens(x, y, s)
  BY DEF Opens
<1>2. ASSUME NEW a PROVE Held(x, [x EXCEPT !.act = a])
  BY DEF Held, Kept, IsView, ViewFields
<1>3. Opens(x, Enter([x EXCEPT !.cr = TRUE], s, FALSE), s)
  <2> DEFINE y == [x EXCEPT !.cr = TRUE]
  <2>1. Held(x, y) /\ IsView(y) /\ ~y.editing
    BY DEF Held, Kept, IsView, ViewFields
  <2> HIDE DEF y
  <2>2. Opens(y, Enter(y, s, FALSE), s)
    BY <2>1, EnterOpens
  <2>3. Opens(x, Enter(y, s, FALSE), s)
    BY <2>1, <2>2, HeldOpens
  <2> QED BY <2>3 DEF y
<1>4. /\ Opens(x, x, s) /\ Opens(x, ToggleSection(x, s, "flip"), s) /\ Opens(x, StartDialog(x, s), s)
      /\ Opens(x, Adjust(x, s, "space"), s)
  BY <1>1, HeldSame, ToggleSectionHeld, StartDialogOpens, AdjustHeld
<1>5. \A a : Opens(x, [x EXCEPT !.act = a], s)
  BY <1>1, <1>2
<1> DEFINE r == Row(x, s)
           L == {IF Levels[l] = r.value THEN x ELSE [x EXCEPT !.act = Act("set", r.key, Levels[l])] : l \in r.low..r.high}
<1>6. ASSUME z \in L PROVE Opens(x, z, s)
  BY <1>4, <1>5, <1>6, Zenon
<1>7. \/ z \in L
      \/ z \in {x} \/ z \in {ToggleSection(x, s, "flip")} \/ z \in {IF e.kind = "drag" THEN x ELSE ToggleSection(x, s, "flip")}
      \/ z \in {StartDialog(x, s)} \/ z \in {Adjust(x, s, "space")} \/ z \in {Enter([x EXCEPT !.cr = TRUE], s, FALSE)}
  BY Zenon DEF PressRow
<1> HIDE DEF L
<1> QED BY <1>3, <1>4, <1>6, <1>7, Zenon

LEMMA PressLineOpens ==
  \A w, s, e : IsView(w) /\ ~w.editing => \A z \in PressLine(w, s, e) : Opens(w, z, s)
<1> SUFFICES ASSUME NEW w, IsView(w), ~w.editing, NEW s, NEW e, NEW items, NEW z \in PressItem(w, s, e, items)
             PROVE  Opens(w, z, s)
  BY Zenon DEF PressLine
<1>1. CASE z = w
  BY <1>1, HeldSame DEF Opens
<1>2. CASE z # w
  <2>1. PICK a, h : z \in PressRow(Dirty([w EXCEPT !.selected = a, !.section = h]), s, e)
    BY <1>2, Zenon DEF PressItem
  <2> DEFINE x == Dirty([w EXCEPT !.selected = a, !.section = h])
  <2>2. Held(w, x) /\ IsView(x) /\ ~x.editing
    BY DEF Held, Kept, IsView, Dirty, ViewFields
  <2> HIDE DEF x
  <2>3. Opens(x, z, s)
    BY <2>1, <2>2, PressRowOpens DEF x
  <2> QED BY <2>2, <2>3, HeldOpens
<1> QED BY <1>1, <1>2

LEMMA PressDraftHeld == \A w, s, e : IsView(w) /\ w.editing => Held(w, PressDraft(w, s, e))
<1> SUFFICES ASSUME NEW w, IsView(w), w.editing, NEW s, NEW e PROVE Held(w, PressDraft(w, s, e))
  OBVIOUS
<1>1. Held(w, Apply([Choose(w, s, e.at) EXCEPT !.cr = TRUE], s))
  <2>1. ASSUME NEW d, NEW c
        PROVE  Held(w, [Repaint([w EXCEPT !.choice = e.at, !.draft = d, !.changed = c]) EXCEPT !.cr = TRUE])
    BY DEF Held, Kept, IsView, Repaint, ViewFields
  <2> DEFINE x == [Choose(w, s, e.at) EXCEPT !.cr = TRUE]
  <2>2. Held(w, x) /\ IsView(x)
    <3> DEFINE o == Row(w, s).options[e.at]
               c == o # Row(w, s).value
    <3>1. x = [Repaint([w EXCEPT !.choice = e.at, !.draft = o, !.changed = c]) EXCEPT !.cr = TRUE]
      BY Zenon DEF Choose
    <3> HIDE DEF o, c, x
    <3> QED BY <2>1, <3>1 DEF Held
  <2> HIDE DEF x
  <2>3. Held(w, Apply(x, s))
    BY <2>2, ApplyHeld, HeldTwice
  <2> QED BY <2>3 DEF x
<1>2. Held(w, Apply([w EXCEPT !.focus = "apply", !.cr = TRUE], s))
  <2> DEFINE x == [w EXCEPT !.focus = "apply", !.cr = TRUE]
  <2>1. Held(w, x) /\ IsView(x)
    BY DEF Held, Kept, IsView, ViewFields
  <2> HIDE DEF x
  <2>2. Held(w, Apply(x, s))
    BY <2>1, ApplyHeld, HeldTwice
  <2> QED BY <2>2 DEF x
<1>3. Held(w, Dirty([w EXCEPT !.focus = "draft"]))
  BY DEF Held, Kept, IsView, Dirty, ViewFields
<1>4. Held(w, w) /\ Held(w, Cancel(w))
  BY HeldSame, CancelHeld
<1> QED BY <1>1, <1>2, <1>3, <1>4, Zenon DEF PressDraft

LEMMA PointedOpens == \A x, s, e : IsView(x) => \A z \in Pointed(x, s, e) : Opens(x, z, s)
<1> SUFFICES ASSUME NEW x, IsView(x), NEW s, NEW e, NEW z \in Pointed(x, s, e) PROVE Opens(x, z, s)
  OBVIOUS
<1> DEFINE y == IF e.kind = "drag" THEN x ELSE [x EXCEPT !.drag = TRUE]
           k == IF e.kind = "up" THEN "A" ELSE "B"
<1>1. Held(x, y) /\ IsView(y) /\ (x.editing => y.editing)
  BY DEF Held, Kept, IsView, ViewFields
<1>2. Held(x, [x EXCEPT !.drag = FALSE]) /\ Held(x, x)
  BY DEF Held, Kept, IsView, ViewFields
<1>3. Held(x, Wheel(x, s, k))
  <2> DEFINE a == Arrow(x, s, k)
             b == Arrow(a, s, k)
  <2> HIDE DEF k
  <2>1. Held(x, a) /\ IsView(a)
    BY ArrowHeld DEF Held
  <2> HIDE DEF a
  <2>2. Held(x, b) /\ IsView(b)
    BY <2>1, ArrowHeld, HeldTwice DEF Held
  <2> HIDE DEF b
  <2>3. Held(x, Arrow(b, s, k))
    BY <2>2, ArrowHeld, HeldTwice DEF Held
  <2> QED BY <1>2, <2>3, Zenon DEF Wheel, a, b
<1> HIDE DEF y
<1>4. y.editing => Opens(x, PressDraft(y, s, e), s)
  BY <1>1, PressDraftHeld, HeldTwice DEF Opens
<1>5. Opens(x, PressTab(y, s, e.at), s)
  <2>1. Held(y, Repaint([y EXCEPT !.page = e.at, !.selected = 1, !.section = FALSE, !.grid = FALSE]))
    BY <1>1 DEF Held, Kept, IsView, Repaint, ViewFields
  <2>2. Held(y, y)
    BY <1>1, HeldSame
  <2>3. Held(y, PressTab(y, s, e.at))
    BY <2>1, <2>2, Zenon DEF PressTab
  <2> QED BY <1>1, <2>3, HeldTwice DEF Opens
<1>6. ~y.editing => \A u \in PressLine(y, s, e) : Opens(x, u, s)
  BY <1>1, PressLineOpens, HeldOpens
<1>7. Opens(x, [x EXCEPT !.drag = FALSE], s) /\ Opens(x, x, s) /\ Opens(x, y, s) /\ Opens(x, Wheel(x, s, k), s)
  BY <1>1, <1>2, <1>3 DEF Opens
<1>8. \/ z \in {[x EXCEPT !.drag = FALSE]} \/ z \in {x} \/ z \in {Wheel(x, s, k)}
      \/ (y.editing /\ z \in {PressDraft(y, s, e)}) \/ z \in {PressTab(y, s, e.at)}
      \/ (~y.editing /\ z \in PressLine(y, s, e)) \/ z \in {y}
  BY Zenon DEF Pointed, y
<1> QED BY <1>4, <1>5, <1>6, <1>7, <1>8, Zenon

Fits(w, row) ==
  /\ IsView(w)
  /\ ~w.editing => Clean(w)
  /\ ~w.active => ~w.editing
  /\ w.editing => w.key = row.key /\ w.secret = row.secret /\ w.observed = RowHash(row)
DraftGood == Fits(v, seen)

LEMMA FreshView ==
  \A c, z : LET w == Fresh(c, z) IN IsView(w) /\ Clean(w) /\ w.active /\ ~w.editing
BY DEF Fresh, IsView, Clean, ViewFields

LEMMA TakenGood ==
  ASSUME DraftGood, v.active, Taken, Opens(v, v', snap) \/ (IsView(v') /\ Clean(v'))
  PROVE  DraftGood'
<1>1. seen' = IF v'.editing /\ ~v.editing THEN Row(v', snap) ELSE IF v'.editing THEN seen ELSE None
  BY DEF Taken
<1>2. CASE IsView(v') /\ Clean(v')
  BY <1>2 DEF DraftGood, Fits, Clean
<1>3. CASE Held(v, v') /\ ~Clean(v')
  BY <1>1, <1>3 DEF DraftGood, Fits, Held, Kept, Clean
<1>4. CASE Opens(v, v', snap) /\ ~Held(v, v')
  BY <1>1, <1>4 DEF DraftGood, Fits, Opens
<1> QED BY <1>2, <1>3, <1>4 DEF Held

LEMMA FeedGood == ASSUME DraftGood, NEW b, NEW d, Feed(b, d) PROVE DraftGood'
<1> DEFINE x == Synced(v, snap)
           y == IF b \in {"cr", "lf"} THEN x ELSE [x EXCEPT !.cr = FALSE]
           Fine(z) == Opens(v, z, snap) \/ (IsView(z) /\ Clean(z))
<1>1. IsView(v) /\ Held(v, x) /\ (~ChoiceGone /\ v.editing => x.editing)
  BY SyncedHeld DEF DraftGood, Fits, ChoiceGone
<1>2. v.active /\ Taken /\ v' = Fed(x, b, d) /\ (~v.editing => Clean(v))
  BY DEF Feed, DraftGood, Fits
<1> HIDE DEF x
<1>3. Fine(x)
  BY <1>1 DEF Opens
<1>4. Held(x, y) /\ IsView(y) /\ (x.editing => y.editing)
  BY <1>1 DEF Held, Kept, IsView, ViewFields
<1> HIDE DEF y
<1>5. Held(v, y)
  BY <1>1, <1>4, HeldTwice
<1>6. ASSUME NEW u, Held(x, u) PROVE Fine(u)
  BY <1>1, <1>6, HeldTwice DEF Opens
<1>7. Held(x, [x EXCEPT !.cr = FALSE])
  BY <1>1 DEF Held, Kept, IsView, ViewFields
<1>8. ASSUME NEW k PROVE Fine([y EXCEPT !.esc = k])
  <2>1. Held(y, [y EXCEPT !.esc = k])
    BY <1>4 DEF Held, Kept, IsView, ViewFields
  <2>2. Held(x, [y EXCEPT !.esc = k])
    BY <1>4, <2>1, HeldTwice
  <2> HIDE DEF Fine
  <2> QED BY <1>6, <2>2
<1>9. ASSUME ~ChoiceGone PROVE Fine(Final([y EXCEPT !.esc = 0], snap, b, d))
  <2> DEFINE w == [y EXCEPT !.esc = 0]
  <2>1. Held(y, w) /\ IsView(w) /\ (y.editing => w.editing)
    BY <1>4 DEF Held, Kept, IsView, ViewFields
  <2> HIDE DEF w
  <2>2. Held(v, w) /\ (v.editing => w.editing)
    BY <1>1, <1>4, <1>5, <1>9, <2>1, HeldTwice
  <2>3. Opens(w, Final(w, snap, b, d), snap)
    BY <2>1, FinalOpens
  <2>4. Opens(v, Final(w, snap, b, d), snap)
    BY <2>2, <2>3, HeldOpens
  <2> QED BY <2>4 DEF w
<1>a. ASSUME ~ChoiceGone PROVE Fine(Arrow([y EXCEPT !.esc = 0], snap, b))
  <2> DEFINE w == [y EXCEPT !.esc = 0]
             u == Arrow(w, snap, b)
  <2>1. Held(y, w) /\ IsView(w)
    BY <1>4 DEF Held, Kept, IsView, ViewFields
  <2> HIDE DEF w
  <2>2. Held(w, u)
    BY <2>1, ArrowHeld
  <2> HIDE DEF u
  <2>3. Held(x, u)
    BY <1>4, <2>1, <2>2, HeldTwice
  <2> HIDE DEF Fine
  <2> QED BY <1>6, <2>3 DEF u, w
<1>10. ASSUME ~ChoiceGone PROVE Fine(Plain(y, snap, b, d))
  <2> DEFINE u == Plain(y, snap, b, d)
  <2>1. Opens(y, u, snap) \/ Stops(y, u)
    BY <1>4, PlainOpens
  <2> HIDE DEF u
  <2>2. ASSUME Opens(y, u, snap) PROVE Opens(v, u, snap)
    BY <1>1, <1>4, <1>5, <1>10, <2>2, HeldOpens
  <2>3. ASSUME Stops(y, u) PROVE IsView(u) /\ Clean(u)
    <3>1. ~v.editing
      BY <1>1, <1>4, <1>10, <2>3 DEF Stops
    <3>2. Clean(y)
      BY <1>2, <1>5, <3>1 DEF Held, Kept, Clean
    <3> QED BY <2>3, <3>2 DEF Stops, Kept, Clean
  <2>4. Fine(u)
    BY <2>1, <2>2, <2>3
  <2> QED BY <2>4 DEF u
<1>11. Fine([x EXCEPT !.cr = FALSE])
  <2> HIDE DEF Fine
  <2> QED BY <1>6, <1>7
<1>12. Fine(v')
  <2> HIDE DEF Fine
  <2> QED BY <1>2, <1>3, <1>8, <1>9, <1>10, <1>a, <1>11, Zenon DEF Fed, y
<1> QED BY <1>2, <1>12, TakenGood

LEMMA MouseGood == ASSUME DraftGood, NEW e, Mouse(e) PROVE DraftGood'
<1> DEFINE x == Synced(v, snap)
           w == [x EXCEPT !.cr = FALSE, !.esc = 0]
<1>1. IsView(v) /\ Held(v, x) /\ (~ChoiceGone /\ v.editing => x.editing)
  BY SyncedHeld DEF DraftGood, Fits, ChoiceGone
<1>2. v.active /\ Taken /\ (IF ChoiceGone THEN v' = x ELSE v' \in Pointed(w, snap, e))
  BY Zenon DEF Mouse
<1> HIDE DEF x
<1>3. Held(x, w) /\ IsView(w) /\ (x.editing => w.editing)
  BY <1>1 DEF Held, Kept, IsView, ViewFields
<1> HIDE DEF w
<1>4. Opens(v, v', snap)
  <2>1. CASE ChoiceGone
    BY <1>1, <1>2, <2>1 DEF Opens
  <2>2. CASE ~ChoiceGone
    <3>1. Held(v, w) /\ (v.editing => w.editing)
      BY <1>1, <1>3, <2>2, HeldTwice
    <3>2. Opens(w, v', snap)
      BY <1>2, <1>3, <2>2, PointedOpens
    <3> QED BY <3>1, <3>2, HeldOpens
  <2> QED BY <2>1, <2>2
<1> QED BY <1>2, <1>4, TakenGood

LEMMA FlushGood == ASSUME DraftGood, FlushEscape PROVE DraftGood'
<1> DEFINE w == [v EXCEPT !.esc = 0, !.act = None]
<1>1. IsView(v) /\ Held(v, w) /\ IsView(w) /\ (v.editing <=> w.editing) /\ (v.active <=> w.active)
  BY DEF DraftGood, Fits, Held, Kept, IsView, ViewFields
<1>2. /\ Taken
      /\ v' = IF w.editing THEN Cancel(w)
              ELSE IF w.active THEN [w EXCEPT !.active = FALSE, !.act = [type |-> "exit"]] ELSE w
  BY Zenon DEF FlushEscape
<1> HIDE DEF w
<1>3. CASE w.editing
  <2>1. Held(v, v')
    BY <1>1, <1>2, <1>3, CancelHeld
  <2>2. v.active
    BY <1>1, <1>3 DEF DraftGood, Fits
  <2> QED BY <1>2, <2>1, <2>2, TakenGood DEF Opens
<1>4. CASE ~w.editing
  <2>1. Clean(w)
    BY <1>1, <1>4 DEF DraftGood, Fits, Held, Kept, Clean
  <2>2. IsView(v') /\ Clean(v')
    BY <1>1, <1>2, <1>4, <2>1 DEF Clean, IsView, ViewFields
  <2> QED BY <2>2 DEF DraftGood, Fits, Clean
<1> QED BY <1>3, <1>4

LEMMA RenderGood == ASSUME DraftGood, NEW force, Render(force) PROVE DraftGood'
<1> DEFINE w == [v EXCEPT !.act = None]
           x == Synced(w, snap)
           y == Noticed(Resized(x))
<1>1. Held(v, w) /\ IsView(w)
  BY DEF DraftGood, Fits, Held, Kept, IsView, ViewFields
<1> HIDE DEF w
<1>2. Held(v, x) /\ IsView(x)
  BY <1>1, SyncedHeld, HeldTwice DEF Held
<1> HIDE DEF x
<1>3. Held(x, Resized(x)) /\ IsView(Resized(x))
  BY <1>2, HeldSame, RepaintHeld DEF Resized, Held
<1>4. Held(x, y) /\ IsView(y)
  BY <1>3, HeldSame, RepaintHeld, HeldTwice DEF Noticed, Held
<1>5. Renders(y, force) /\ v.active /\ seen' = IF v'.editing THEN seen ELSE None
  BY Zenon DEF Render, w, x
<1> HIDE DEF y
<1>6. Held(y, v')
  <2>1. Held(y, y)
    BY <1>4, HeldSame
  <2>2. ASSUME NEW f, NEW g PROVE Held(y, [[y EXCEPT !.dirty = FALSE, !.full = f] EXCEPT !.full = g])
                                  /\ Held(y, [y EXCEPT !.dirty = FALSE, !.full = f])
    BY <1>4 DEF Held, Kept, IsView, ViewFields
  <2> DEFINE u == [y EXCEPT !.dirty = FALSE, !.full = @ \/ force]
             g == u.menu /\ u.editing /\ ~snap.small
  <2>3. v' = y \/ v' = u \/ v' = [u EXCEPT !.full = g]
    BY <1>5, Zenon DEF Renders, Draws
  <2>4. Held(y, u) /\ Held(y, [u EXCEPT !.full = g])
    <3> DEFINE f == y.full \/ force
    <3>1. u = [y EXCEPT !.dirty = FALSE, !.full = f]
      BY <1>4 DEF IsView, ViewFields
    <3> HIDE DEF u, f, g
    <3> QED BY <2>2, <3>1
  <2> QED BY <2>1, <2>3, <2>4
<1>7. Held(v, v')
  BY <1>2, <1>4, <1>6, HeldTwice
<1> QED BY <1>5, <1>7 DEF DraftGood, Fits, Held, Kept, Clean

\* An open draft stays that of a row the view was on, and a closed one leaves nothing.
LEMMA DeviceKeeps == ASSUME DraftGood, DeviceNext PROVE DraftGood'
<1>1. ASSUME NEW b, NEW d, Feed(b, d) PROVE DraftGood'
  BY <1>1, FeedGood
<1>2. ASSUME NEW e, Mouse(e) PROVE DraftGood'
  BY <1>2, MouseGood
<1>3. CASE FlushEscape
  BY <1>3, FlushGood
<1>4. ASSUME NEW force, Render(force) PROVE DraftGood'
  BY <1>4, RenderGood
<1>5. CASE Provide
  BY <1>5 DEF DraftGood, Fits, IsView, Clean, Provide, ViewFields
<1>6. CASE BeginView
  <2>1. v' = Fresh(v.closed, v.schema)
    BY <1>6 DEF BeginView
  <2> QED BY <2>1, FreshView DEF DraftGood, Fits
<1>7. CASE EndView
  BY <1>7 DEF DraftGood, Fits, IsView, Clean, EndView, ClearDraft, ViewFields
<1>8. CASE Restyle
  BY <1>8 DEF DraftGood, Fits, IsView, Clean, Restyle, Repaint, ViewFields
<1> QED BY <1>1, <1>2, <1>3, <1>4, <1>5, <1>6, <1>7, <1>8 DEF DeviceNext

LEMMA DeviceStarts == ASSUME DeviceInit PROVE DraftGood
BY FreshView DEF DeviceInit, DraftGood, Fits

\* What a view with an open draft may ask for: the row it is on to become the draft.
Grants(w, act, s) ==
  act.type = "set" =>
    /\ HasRow(w, s) /\ Changeable(Row(w, s)) /\ Row(w, s).key = w.key /\ act.key = w.key
    /\ ValidValue(Row(w, s), act.value) /\ RowHash(Row(w, s)) = w.observed
Quiet(w) == w.act.type # "set"
OnRow(w, x) ==
  IsView(x) /\ x.page = w.page /\ x.selected = w.selected /\ x.section = w.section
  /\ x.key = w.key /\ x.observed = w.observed /\ x.act = w.act

LEMMA GrantsSame == \A w, x, act, s : OnRow(w, x) /\ Grants(x, act, s) => Grants(w, act, s)
BY DEF OnRow, Grants, HasRow, Row, Rows

LEMMA QuietKept ==
  \A w : IsView(w) => Cancel(w).act = w.act /\ Repaint(w).act = w.act /\ Dirty(w).act = w.act
BY DEF Cancel, ClearDraft, Repaint, Dirty, IsView, ViewFields

\* A request is for the row the draft was opened on.
LEMMA ApplyGrants == \A w, s : IsView(w) /\ Quiet(w) => Grants(w, Apply(w, s).act, s)
<1> SUFFICES ASSUME NEW w, IsView(w), Quiet(w), NEW s PROVE Grants(w, Apply(w, s).act, s)
  OBVIOUS
<1> DEFINE a == Act("set", w.key, w.draft)
           x == [w EXCEPT !.act = a]
           r == Row(w, s)
           p == Apply(w, s)
<1>1. \/ p = Cancel(w) \/ p = Repaint(w)
      \/ /\ p = Cancel(x) /\ HasRow(w, s) /\ Changeable(r) /\ r.key = w.key
         /\ w.observed = RowHash(r) /\ ValidValue(r, w.draft)
  BY Zenon DEF Apply
<1>2. Cancel(x).act = a /\ a.type = "set" /\ a.key = w.key /\ a.value = w.draft
  BY DEF Cancel, ClearDraft, Repaint, IsView, ViewFields, Act
<1>3. p = Cancel(w) \/ p = Repaint(w) => p.act = w.act
  BY QuietKept
<1> HIDE DEF a, x, p
<1> QED BY <1>1, <1>2, <1>3 DEF Grants, Quiet, p

SameAct(w, x) == x.act = w.act
LEMMA ChoiceKeyQuiet == \A w, s, b : IsView(w) => ChoiceKey(w, s, b).act = w.act
<1>1. ASSUME NEW w, IsView(w), NEW s, NEW c PROVE SameAct(w, Choose(w, s, c))
  BY <1>1 DEF Choose, Repaint, IsView, ViewFields, SameAct
<1>2. ASSUME NEW w, IsView(w) PROVE SameAct(w, Cancel(w)) /\ SameAct(w, w)
  BY <1>2, QuietKept DEF SameAct
<1>3. ASSUME NEW w, IsView(w), NEW s, NEW b PROVE SameAct(w, ChoiceKey(w, s, b))
  BY <1>1, <1>2, <1>3, Zenon DEF ChoiceKey
<1> QED BY <1>3 DEF SameAct

LEMMA EditGrants == \A w, s, b, d : IsView(w) /\ Quiet(w) => Grants(w, Edit(w, s, b, d).act, s)
<1> SUFFICES ASSUME NEW w, IsView(w), Quiet(w), NEW s, NEW b, NEW d PROVE Grants(w, Edit(w, s, b, d).act, s)
  OBVIOUS
<1>1. \A act : act = w.act => Grants(w, act, s)
  BY DEF Grants, Quiet
<1>2. ASSUME NEW f PROVE Repaint([w EXCEPT !.focus = f]).act = w.act
  BY DEF Repaint, IsView, ViewFields
<1>3. Dirty([w EXCEPT !.draft = d, !.changed = TRUE]).act = w.act
  BY DEF Dirty, IsView, ViewFields
<1>4. ASSUME NEW c PROVE Grants(w, Apply([w EXCEPT !.cr = c], s).act, s)
  <2> DEFINE x == [w EXCEPT !.cr = c]
  <2>1. OnRow(w, x) /\ IsView(x) /\ Quiet(x)
    BY DEF OnRow, Quiet, IsView, ViewFields
  <2> HIDE DEF x
  <2>2. Grants(w, Apply(x, s).act, s)
    BY <2>1, ApplyGrants, GrantsSame
  <2> QED BY <2>2 DEF x
<1>5. ChoiceKey(w, s, b).act = w.act /\ Cancel(w).act = w.act
  BY ChoiceKeyQuiet, QuietKept
<1>6. /\ \A f : Grants(w, Repaint([w EXCEPT !.focus = f]).act, s)
      /\ Grants(w, Dirty([w EXCEPT !.draft = d, !.changed = TRUE]).act, s)
      /\ Grants(w, ChoiceKey(w, s, b).act, s) /\ Grants(w, Cancel(w).act, s) /\ Grants(w, w.act, s)
  BY <1>1, <1>2, <1>3, <1>5
<1> QED BY <1>4, <1>6, Zenon DEF Edit

LEMMA ArrowQuiet ==
  \A w, s, k : IsView(w) /\ Quiet(w) /\ (w.editing \/ k \in {"A", "B"}) => Quiet(Arrow(w, s, k))
<1> SUFFICES ASSUME NEW w, IsView(w), Quiet(w), NEW s, NEW k, w.editing \/ k \in {"A", "B"}
             PROVE  Quiet(Arrow(w, s, k))
  OBVIOUS
<1>1. Quiet(ChoiceKey(w, s, k)) /\ Quiet(Dirty(w))
  BY ChoiceKeyQuiet, QuietKept DEF Quiet
<1>2. CASE w.editing
  BY <1>1, <1>2, Zenon DEF Arrow
<1>3. CASE ~w.editing
  <2>1. ASSUME NEW a PROVE Quiet(Dirty([w EXCEPT !.selected = a]))
    BY DEF Dirty, Quiet, IsView, ViewFields
  <2>2. Quiet(MoveItem(w, s, k))
    <3>1. ASSUME NEW a, NEW h PROVE Quiet(Dirty([w EXCEPT !.selected = a, !.section = h]))
      BY DEF Dirty, Quiet, IsView, ViewFields
    <3>2. ASSUME NEW items, NEW f PROVE Quiet(GoTo(w, items, f, k))
      BY <3>1, Zenon DEF GoTo
    <3> QED BY <3>2, Zenon DEF MoveItem
  <2>3. ASSUME NEW d PROVE Quiet(StepPixel(w, s, d))
    <3>1. ASSUME NEW x, IsView(x) PROVE IsView(SyncPixel(x, s)) /\ SyncPixel(x, s).act = x.act
      BY <3>1 DEF SyncPixel, IsView, ViewFields
    <3>2. ASSUME NEW x, IsView(x), NEW l, NEW i, NEW c
          PROVE  Quiet([x EXCEPT !.act = [type |-> "pixel", index |-> i, layout |-> l, count |-> c]])
      BY <3>2 DEF Quiet, IsView, ViewFields
    <3>3. ASSUME NEW x, IsView(x) PROVE Quiet(PixelAction(x, s))
      <4> DEFINE y == SyncPixel(x, s)
      <4>1. IsView(y)
        BY <3>1, <3>3
      <4> HIDE DEF y
      <4> QED BY <3>2, <4>1, Zenon DEF PixelAction, y
    <3> DEFINE x == SyncPixel(w, s)
    <3>4. IsView(x) /\ Quiet(x)
      BY <3>1 DEF Quiet
    <3> HIDE DEF x
    <3>5. Quiet(Dirty(x)) /\ \A p : IsView(Dirty([x EXCEPT !.pixel = p]))
      BY <3>4 DEF Quiet, Dirty, IsView, ViewFields
    <3>6. \A p : Quiet(PixelAction(Dirty([x EXCEPT !.pixel = p]), s))
      BY <3>3, <3>5
    <3> QED BY <3>5, <3>6, Zenon DEF StepPixel, x
  <2>4. k \in {"A", "B"} /\ k \notin {"C", "D"}
    BY <1>3
  <2> QED BY <1>1, <1>3, <2>1, <2>2, <2>3, <2>4, Zenon DEF Arrow
<1> QED BY <1>2, <1>3

LEMMA PressDraftGrants == \A w, s, e : IsView(w) /\ Quiet(w) => Grants(w, PressDraft(w, s, e).act, s)
<1> SUFFICES ASSUME NEW w, IsView(w), Quiet(w), NEW s, NEW e PROVE Grants(w, PressDraft(w, s, e).act, s)
  OBVIOUS
<1>1. \A act : act = w.act => Grants(w, act, s)
  BY DEF Grants, Quiet
<1>2. Grants(w, Apply([Choose(w, s, e.at) EXCEPT !.cr = TRUE], s).act, s)
  <2>1. ASSUME NEW d, NEW c
        PROVE  OnRow(w, [Repaint([w EXCEPT !.choice = e.at, !.draft = d, !.changed = c]) EXCEPT !.cr = TRUE])
    BY DEF OnRow, IsView, Repaint, ViewFields
  <2> DEFINE x == [Choose(w, s, e.at) EXCEPT !.cr = TRUE]
  <2>2. OnRow(w, x) /\ IsView(x) /\ Quiet(x)
    <3> DEFINE o == Row(w, s).options[e.at]
               c == o # Row(w, s).value
    <3>1. x = [Repaint([w EXCEPT !.choice = e.at, !.draft = o, !.changed = c]) EXCEPT !.cr = TRUE]
      BY Zenon DEF Choose
    <3> HIDE DEF o, c, x
    <3> QED BY <2>1, <3>1, ZenonT(60) DEF OnRow, Quiet
  <2> HIDE DEF x
  <2>3. Grants(w, Apply(x, s).act, s)
    BY <2>2, ApplyGrants, GrantsSame
  <2> QED BY <2>3 DEF x
<1>3. Grants(w, Apply([w EXCEPT !.focus = "apply", !.cr = TRUE], s).act, s)
  <2> DEFINE x == [w EXCEPT !.focus = "apply", !.cr = TRUE]
  <2>1. OnRow(w, x) /\ IsView(x) /\ Quiet(x)
    BY DEF OnRow, Quiet, IsView, ViewFields
  <2> HIDE DEF x
  <2>2. Grants(w, Apply(x, s).act, s)
    BY <2>1, ApplyGrants, GrantsSame
  <2> QED BY <2>2 DEF x
<1>4. Dirty([w EXCEPT !.focus = "draft"]).act = w.act
  BY DEF Dirty, IsView, ViewFields
<1>5. Grants(w, w.act, s) /\ Grants(w, Cancel(w).act, s) /\ Grants(w, Dirty([w EXCEPT !.focus = "draft"]).act, s)
  BY <1>1, <1>4, QuietKept
<1> QED BY <1>2, <1>3, <1>5, Zenon DEF PressDraft

LEMMA PointedGrants ==
  \A x, s, e : IsView(x) /\ Quiet(x) /\ x.editing => \A z \in Pointed(x, s, e) : Grants(x, z.act, s)
<1> SUFFICES ASSUME NEW x, IsView(x), Quiet(x), x.editing, NEW s, NEW e, NEW z \in Pointed(x, s, e)
             PROVE  Grants(x, z.act, s)
  OBVIOUS
<1>1. \A u : Quiet(u) => Grants(x, u.act, s)
  BY DEF Grants, Quiet
<1> DEFINE y == IF e.kind = "drag" THEN x ELSE [x EXCEPT !.drag = TRUE]
           k == IF e.kind = "up" THEN "A" ELSE "B"
<1>2. OnRow(x, y) /\ IsView(y) /\ Quiet(y) /\ y.editing
  BY DEF OnRow, Quiet, IsView, ViewFields
<1>3. Quiet([x EXCEPT !.drag = FALSE])
  BY DEF Quiet, IsView, ViewFields
<1>4. Quiet(Wheel(x, s, k))
  <2> DEFINE a == Arrow(x, s, k)
             b == Arrow(a, s, k)
  <2>k. k \in {"A", "B"}
    OBVIOUS
  <2> HIDE DEF k
  <2>1. IsView(a) /\ Quiet(a)
    BY <2>k, ArrowHeld, ArrowQuiet DEF Held
  <2> HIDE DEF a
  <2>2. IsView(b) /\ Quiet(b)
    BY <2>1, <2>k, ArrowHeld, ArrowQuiet DEF Held
  <2> HIDE DEF b
  <2>3. Quiet(Arrow(b, s, k))
    BY <2>2, <2>k, ArrowQuiet
  <2> QED BY <2>3, Zenon DEF Wheel, a, b
<1> HIDE DEF y, k
<1>5. Grants(x, PressDraft(y, s, e).act, s)
  BY <1>2, PressDraftGrants, GrantsSame
<1>6. \/ z \in {[x EXCEPT !.drag = FALSE]} \/ z \in {x} \/ z \in {Wheel(x, s, k)}
      \/ z \in {PressDraft(y, s, e)}
  BY <1>2, Zenon DEF Pointed, y, k
<1>7. z = [x EXCEPT !.drag = FALSE] \/ z = x \/ z = Wheel(x, s, k) => Quiet(z)
  BY <1>3, <1>4
<1> QED BY <1>1, <1>5, <1>6, <1>7

LEMMA ArrowGrants == \A w, s, k : IsView(w) /\ Quiet(w) /\ w.editing => Grants(w, Arrow(w, s, k).act, s)
BY ArrowQuiet DEF Quiet, Grants

LEMMA FinalGrants ==
  \A w, s, b, d : IsView(w) /\ Quiet(w) /\ w.editing => Grants(w, Final(w, s, b, d).act, s)
<1> SUFFICES ASSUME NEW w, IsView(w), Quiet(w), w.editing, NEW s, NEW b, NEW d
             PROVE  Grants(w, Final(w, s, b, d).act, s)
  OBVIOUS
<1>1. /\ Grants(w, w.act, s) /\ Grants(w, Edit(w, s, "text", d).act, s)
      /\ Grants(w, Arrow(w, s, b).act, s) /\ Grants(w, Arrow(w, s, "Z").act, s)
  BY EditGrants, ArrowGrants DEF Grants, Quiet
<1>2. StartDialog(w, s) = w
  BY DEF StartDialog
<1> QED BY <1>1, <1>2, Zenon DEF Final

LEMMA PlainGrants ==
  \A w, s, b, d : IsView(w) /\ Quiet(w) /\ w.editing => Grants(w, Plain(w, s, b, d).act, s)
<1> SUFFICES ASSUME NEW w, IsView(w), Quiet(w), w.editing, NEW s, NEW b, NEW d
             PROVE  Grants(w, Plain(w, s, b, d).act, s)
  OBVIOUS
<1>1. [w EXCEPT !.esc = 1].act = w.act
  BY DEF IsView, ViewFields
<1>2. /\ Grants(w, w.act, s) /\ Grants(w, Edit(w, s, b, d).act, s)
      /\ Grants(w, [w EXCEPT !.esc = 1].act, s) /\ Grants(w, Cancel(w).act, s) /\ Grants(w, Repaint(w).act, s)
  BY <1>1, EditGrants, QuietKept DEF Grants, Quiet
<1> QED BY <1>2, Zenon DEF Plain

LEMMA FedGrants ==
  ASSUME DraftGood, v.editing, NEW b, NEW d
  PROVE  Grants(Synced(v, snap), Fed(Synced(v, snap), b, d).act, snap)
<1> DEFINE x == Synced(v, snap)
           y == IF b \in {"cr", "lf"} THEN x ELSE [x EXCEPT !.cr = FALSE]
<1>1. IsView(x) /\ (~ChoiceGone => x.editing) /\ x.act = None
  BY SyncedHeld DEF DraftGood, Fits, ChoiceGone, Held
<1> HIDE DEF x
<1>2. Quiet(x)
  BY <1>1 DEF Quiet, None
<1>3. OnRow(x, y) /\ IsView(y) /\ Quiet(y) /\ (x.editing => y.editing)
  BY <1>1, <1>2 DEF OnRow, Quiet, IsView, ViewFields
<1> HIDE DEF y
<1>4. \A u : Quiet(u) => Grants(x, u.act, snap)
  BY DEF Grants, Quiet
<1>5. Quiet([x EXCEPT !.cr = FALSE])
  BY <1>1, <1>2 DEF Quiet, IsView, ViewFields
<1>6. ASSUME NEW k PROVE Quiet([y EXCEPT !.esc = k])
  BY <1>3 DEF Quiet, IsView, ViewFields
<1>7. ASSUME ~ChoiceGone PROVE Grants(x, Final([y EXCEPT !.esc = 0], snap, b, d).act, snap)
  <2> DEFINE w == [y EXCEPT !.esc = 0]
  <2>1. OnRow(y, w) /\ IsView(w) /\ Quiet(w) /\ w.editing
    BY <1>1, <1>3, <1>7 DEF OnRow, Quiet, IsView, ViewFields
  <2> HIDE DEF w
  <2>2. Grants(x, Final(w, snap, b, d).act, snap)
    BY <1>3, <2>1, FinalGrants, GrantsSame
  <2> QED BY <2>2 DEF w
<1>8. ASSUME ~ChoiceGone PROVE Grants(x, Plain(y, snap, b, d).act, snap)
  BY <1>1, <1>3, <1>8, PlainGrants, GrantsSame
<1>9. /\ Grants(x, x.act, snap) /\ Grants(x, [x EXCEPT !.cr = FALSE].act, snap)
      /\ \A k : Grants(x, [y EXCEPT !.esc = k].act, snap)
  BY <1>2, <1>4, <1>5, <1>6
<1>a. ASSUME ~ChoiceGone PROVE Grants(x, Arrow([y EXCEPT !.esc = 0], snap, b).act, snap)
  <2> DEFINE w == [y EXCEPT !.esc = 0]
  <2>1. IsView(w) /\ Quiet(w) /\ w.editing
    BY <1>1, <1>3, <1>a DEF Quiet, IsView, ViewFields
  <2> HIDE DEF w
  <2>2. Quiet(Arrow(w, snap, b))
    BY <2>1, ArrowQuiet
  <2> QED BY <1>4, <2>2 DEF w
<1>10. Grants(x, Fed(x, b, d).act, snap)
  BY <1>7, <1>8, <1>9, <1>a, Zenon DEF Fed, y
<1> QED BY <1>10 DEF x

\* What is asked for is the draft, for the row that was seen.
LEMMA AppliesToSeen == ASSUME DraftGood, DeviceNext PROVE DraftAppliesToSeen
<1> SUFFICES ASSUME v.editing, v'.act.type = "set" PROVE DraftAppliesToSeen
  BY DEF DraftAppliesToSeen
<1>0. v.active /\ IsView(v) /\ v.key = seen.key /\ v.observed = RowHash(seen)
  BY DEF DraftGood, Fits
<1> DEFINE x == Synced(v, snap)
<1>1. Held(v, x) /\ IsView(x) /\ (~ChoiceGone => x.editing) /\ x.act = None
  BY <1>0, SyncedHeld DEF ChoiceGone, Held
<1>2. Quiet(x)
  BY <1>1 DEF Quiet, None
<1> HIDE DEF x
<1>3. ASSUME ~ChoiceGone, Grants(x, v'.act, snap) PROVE DraftAppliesToSeen
  <2>1. x.key = v.key /\ x.observed = v.observed
    BY <1>1, <1>3 DEF Held, Kept, Clean
  <2> QED BY <1>0, <1>3, <2>1 DEF DraftAppliesToSeen, Grants, x
<1>n. None.type # "set"
  BY DEF None
<1>4. ASSUME NEW b, NEW d, Feed(b, d) PROVE DraftAppliesToSeen
  <2>1. v' = Fed(x, b, d)
    BY <1>4 DEF Feed, x
  <2>2. ChoiceGone => v' = x
    BY <2>1 DEF Fed
  <2>3. Grants(x, v'.act, snap)
    BY <2>1, FedGrants DEF x
  <2> QED BY <1>1, <1>n, <1>3, <2>2, <2>3
<1>5. ASSUME NEW e, Mouse(e) PROVE DraftAppliesToSeen
  <2> DEFINE w == [x EXCEPT !.cr = FALSE, !.esc = 0]
  <2>1. IF ChoiceGone THEN v' = x ELSE v' \in Pointed(w, snap, e)
    BY <1>5, Zenon DEF Mouse, x
  <2>2. OnRow(x, w) /\ IsView(w) /\ Quiet(w) /\ (x.editing => w.editing)
    BY <1>1, <1>2 DEF OnRow, Quiet, IsView, ViewFields
  <2> HIDE DEF w
  <2>3. ~ChoiceGone => Grants(x, v'.act, snap)
    BY <1>1, <2>1, <2>2, PointedGrants, GrantsSame
  <2> QED BY <1>1, <1>n, <1>3, <2>1, <2>3
<1>6. CASE FlushEscape
  <2> DEFINE w == [v EXCEPT !.esc = 0, !.act = None]
  <2>1. IsView(w) /\ w.act = None /\ w.editing
    BY <1>0 DEF IsView, ViewFields
  <2>2. v' = IF w.editing THEN Cancel(w)
             ELSE IF w.active THEN [w EXCEPT !.active = FALSE, !.act = [type |-> "exit"]] ELSE w
    BY <1>6, Zenon DEF FlushEscape
  <2> HIDE DEF w
  <2> QED BY <1>n, <2>1, <2>2, QuietKept
<1>7. ASSUME NEW force, Render(force) PROVE DraftAppliesToSeen
  <2> DEFINE w == [v EXCEPT !.act = None]
             z == Synced(w, snap)
             y == Noticed(Resized(z))
  <2>1. IsView(w)
    BY <1>0 DEF IsView, ViewFields
  <2> HIDE DEF w
  <2>2. IsView(z) /\ z.act = None
    BY <2>1, SyncedHeld DEF Held
  <2>3. Renders(y, force)
    BY <1>7, Zenon DEF Render, w
  <2> HIDE DEF z
  <2>4. IsView(Resized(z)) /\ Resized(z).act = None
    BY <2>2, QuietKept, RepaintHeld DEF Resized, Held
  <2>5. IsView(y) /\ y.act = None
    BY <2>4, QuietKept, RepaintHeld DEF Noticed, Held
  <2> HIDE DEF y
  <2> DEFINE f == y.full \/ force
             u == [y EXCEPT !.dirty = FALSE, !.full = f]
             g == u.menu /\ u.editing /\ ~snap.small
  <2>6. u = [y EXCEPT !.dirty = FALSE, !.full = @ \/ force]
    BY <2>5 DEF IsView, ViewFields
  <2>7. v' = y \/ v' = u \/ v' = [u EXCEPT !.full = g]
    BY <2>3, <2>6, Zenon DEF Renders, Draws
  <2>8. u.act = None /\ [u EXCEPT !.full = g].act = None
    <3> HIDE DEF f, g
    <3> QED BY <2>5 DEF IsView, ViewFields
  <2> HIDE DEF u, g
  <2> QED BY <1>n, <2>5, <2>7, <2>8
<1>8. CASE Provide \/ EndView \/ Restyle
  <2>1. v'.act = None
    BY <1>0, <1>8 DEF Provide, EndView, Restyle, ClearDraft, Repaint, IsView, ViewFields
  <2> QED BY <1>n, <2>1
<1>9. CASE BeginView
  BY <1>0, <1>9 DEF BeginView
<1> QED BY <1>4, <1>5, <1>6, <1>7, <1>8, <1>9 DEF DeviceNext

-----------------------------------------------------------------------------
(* The device view: the layout of its pixels.                               *)

\* A snapshot as the provider publishes it.
Published(s) == s.groups \in Seq(Nat \ {0}) /\ s.rows \in [PageSet -> Seq(SnapshotRow)]
LEMMA SnapshotsPublished == ASSUME NEW s \in Snapshots PROVE Published(s)
BY ViewAssumption DEF Published

\* The sums of the lengths of the groups.
Sums(G, n, f) == f = [i \in 0..n |-> IF i = 0 THEN 0 ELSE f[i - 1] + G[i]]
SumsUpto(G, k, h) == h \in [0..k -> Nat] /\ h[0] = 0 /\ \A i \in 1..k : h[i] = h[i - 1] + G[i]
LEMMA SumsExist ==
  ASSUME NEW G \in Seq(Nat \ {0}), NEW n \in Nat, n = Len(G)
  PROVE  Sums(G, n, CHOOSE f : Sums(G, n, f))
<1> DEFINE Z == {k \in Nat : k <= n => \E h : SumsUpto(G, k, h)}
<1>1. 0 \in Z
  <2> DEFINE h == [i \in 0..0 |-> 0]
  <2>1. SumsUpto(G, 0, h)
    <3>1. h \in [0..0 -> Nat]
      OBVIOUS
    <3>2. h[0] = 0
      OBVIOUS
    <3>3. \A i \in 1..0 : FALSE
      OBVIOUS
    <3> HIDE DEF h
    <3> QED BY <3>1, <3>2, <3>3 DEF SumsUpto
  <2> HIDE DEF h
  <2>2. \E x : SumsUpto(G, 0, x)
    BY <2>1, Zenon
  <2> QED BY <2>2
<1>2. ASSUME NEW k \in Z PROVE k + 1 \in Z
  <2>0. k \in Nat
    OBVIOUS
  <2>1. SUFFICES ASSUME k + 1 <= n PROVE \E h : SumsUpto(G, k + 1, h)
    BY <2>0
  <2>2. PICK h : SumsUpto(G, k, h)
    BY <2>0, <2>1
  <2> DEFINE g == [i \in 0..k + 1 |-> IF i = k + 1 THEN h[k] + G[k + 1] ELSE h[i]]
  <2>3. G[k + 1] \in Nat /\ h[k] \in Nat
    BY <2>0, <2>1, <2>2 DEF SumsUpto
  <2>4. g \in [0..k + 1 -> Nat]
    BY <2>0, <2>2, <2>3 DEF SumsUpto
  <2>5. g[0] = 0
    BY <2>0, <2>2 DEF SumsUpto
  <2>6. ASSUME NEW i \in 1..k + 1 PROVE g[i] = g[i - 1] + G[i]
    <3>1. CASE i = k + 1
      <4>1. g[k + 1] = h[k] + G[k + 1]
        BY <2>0
      <4>2. k # k + 1 /\ k \in 0..k + 1 /\ (k + 1) - 1 = k
        BY <2>0
      <4>3. g[k] = h[k]
        BY <4>2
      <4> HIDE DEF g
      <4>4. g[k + 1] = g[(k + 1) - 1] + G[k + 1]
        BY <4>1, <4>2, <4>3
      <4> QED BY <3>1, <4>4
    <3>2. CASE i # k + 1
      <4>1. i \in 1..k /\ i \in 0..k + 1 /\ i - 1 \in 0..k + 1 /\ i - 1 # k + 1
        BY <2>0, <3>2
      <4>2. g[i] = h[i] /\ g[i - 1] = h[i - 1]
        BY <3>2, <4>1
      <4>3. h[i] = h[i - 1] + G[i]
        BY <2>2, <4>1 DEF SumsUpto
      <4> HIDE DEF g
      <4> QED BY <4>2, <4>3
    <3> QED BY <3>1, <3>2
  <2>7. SumsUpto(G, k + 1, g)
    <3> HIDE DEF g
    <3> QED BY <2>4, <2>5, <2>6, Zenon DEF SumsUpto
  <2> HIDE DEF g
  <2>8. \E x : SumsUpto(G, k + 1, x)
    BY <2>7, Zenon
  <2> QED BY <2>8
<1>3. n \in Z
  <2>1. Z \in SUBSET Nat
    OBVIOUS
  <2> HIDE DEF Z
  <2> QED BY <1>1, <1>2, <2>1, Counted
<1>n. n <= n
  OBVIOUS
<1>4. PICK h : SumsUpto(G, n, h)
  BY <1>3
<1>5. h = [i \in 0..n |-> IF i = 0 THEN 0 ELSE h[i - 1] + G[i]]
  <2>1. \A i \in 0..n : h[i] = IF i = 0 THEN 0 ELSE h[i - 1] + G[i]
    <3> TAKE i \in 0..n
    <3>1. i = 0 \/ i \in 1..n
      OBVIOUS
    <3> QED BY <1>4, <3>1 DEF SumsUpto
  <2> QED BY <1>4, <2>1 DEF SumsUpto
<1>6. Sums(G, n, h)
  BY <1>5 DEF Sums
<1> QED BY <1>6

LEMMA PixelsToIs ==
  ASSUME NEW s, s.groups \in Seq(Nat \ {0})
  PROVE  /\ PixelsTo(s, 0) = 0
         /\ \A i \in 0..Len(s.groups) : PixelsTo(s, i) \in Nat
         /\ \A i \in 1..Len(s.groups) : PixelsTo(s, i) = PixelsTo(s, i - 1) + s.groups[i]
<1> DEFINE G == s.groups
           n == Len(G)
           f == CHOOSE f : Sums(G, n, f)
<1>0. n \in Nat
  OBVIOUS
<1>1. Sums(G, n, f)
  BY SumsExist
<1>2. \A g : PixelsTo(s, g) = f[g]
  BY Zenon DEF PixelsTo, Sums
<1> HIDE DEF f
<1>3. \A i \in 0..n : f[i] = IF i = 0 THEN 0 ELSE f[i - 1] + G[i]
  <2> HIDE DEF n, G
  <2> QED BY <1>0, <1>1 DEF Sums
<1>4. f[0] = 0
  BY <1>0, <1>3
<1>5. \A i \in 1..n : f[i] = f[i - 1] + G[i]
  <2> TAKE i \in 1..n
  <2>1. i \in 0..n /\ i # 0
    BY <1>0
  <2> QED BY <1>3, <2>1
<1> DEFINE Z == {k \in Nat : k <= n => f[k] \in Nat}
<1>6. n \in Nat /\ \A k \in 0..n : f[k] \in Nat
  <2>1. 0 \in Z
    BY <1>4
  <2>2. ASSUME NEW k \in Z PROVE k + 1 \in Z
    <3>1. k \in Nat
      OBVIOUS
    <3>2. SUFFICES ASSUME k + 1 <= n PROVE f[k + 1] \in Nat
      BY <3>1
    <3>3. k + 1 \in 1..n /\ (k + 1) - 1 = k /\ k <= n
      BY <3>1, <3>2, <1>0
    <3>4. G[k + 1] \in Nat
      BY <3>3
    <3>5. f[k] \in Nat
      BY <3>3
    <3>6. f[k + 1] = f[(k + 1) - 1] + G[k + 1]
      BY <1>5, <3>3
    <3> HIDE DEF G, n, Z
    <3> QED BY <3>3, <3>4, <3>5, <3>6
  <2>3. Z \in SUBSET Nat
    OBVIOUS
  <2>4. Z = Nat
    <3> HIDE DEF Z
    <3> QED BY <2>1, <2>2, <2>3, Counted
  <2> QED BY <2>4, <1>0
<1> HIDE DEF G, n
<1>7. PixelsTo(s, 0) = 0 /\ \A i \in 0..n : PixelsTo(s, i) \in Nat
  BY <1>2, <1>4, <1>6
<1>8. \A i \in 1..n : PixelsTo(s, i) = PixelsTo(s, i - 1) + G[i]
  BY <1>2, <1>5
<1> QED BY <1>7, <1>8 DEF n, G

\* Later groups are not before earlier ones.
LEMMA PixelsGrow ==
  ASSUME NEW s, s.groups \in Seq(Nat \ {0}),
         NEW i \in 0..Len(s.groups), NEW j \in 0..Len(s.groups), i <= j
  PROVE  PixelsTo(s, i) <= PixelsTo(s, j)
<1> DEFINE n == Len(s.groups)
           P(k) == PixelsTo(s, k)
           Z == {k \in Nat : i <= k /\ k <= n => P(i) <= P(k)}
<1>0. n \in Nat /\ i \in 0..n /\ j \in 0..n
  OBVIOUS
<1>1. \A k \in 0..n : P(k) \in Nat
  BY PixelsToIs
<1>2. \A k \in 1..n : P(k) = P(k - 1) + s.groups[k] /\ s.groups[k] \in Nat
  BY PixelsToIs
<1> HIDE DEF P, n
<1>3. 0 \in Z
  <2>1. i <= 0 => i = 0
    BY <1>0
  <2>2. P(0) <= P(0)
    BY <1>0, <1>1
  <2> QED BY <2>1, <2>2
<1>4. ASSUME NEW k \in Z PROVE k + 1 \in Z
  <2>0. k \in Nat
    OBVIOUS
  <2>1. SUFFICES ASSUME i <= k + 1, k + 1 <= n PROVE P(i) <= P(k + 1)
    BY <2>0
  <2>2. k + 1 \in 1..n /\ k + 1 \in 0..n /\ k \in 0..n /\ (k + 1) - 1 = k
    BY <2>0, <2>1, <1>0
  <2>3. P(i) \in Nat /\ P(k) \in Nat /\ P(k + 1) \in Nat
    BY <1>0, <1>1, <2>2
  <2>4. P(k + 1) = P(k) + s.groups[k + 1] /\ s.groups[k + 1] \in Nat
    BY <1>2, <2>2
  <2>5. CASE i = k + 1
    BY <2>3, <2>5
  <2>6. CASE i # k + 1
    <3>1. i <= k
      BY <1>0, <2>0, <2>1, <2>6
    <3>2. P(i) <= P(k)
      BY <2>2, <3>1
    <3> HIDE DEF Z
    <3> QED BY <2>3, <2>4, <3>2
  <2> QED BY <2>5, <2>6
<1>5. Z = Nat
  <2>1. Z \in SUBSET Nat
    OBVIOUS
  <2> HIDE DEF Z
  <2> QED BY <1>3, <1>4, <2>1, Counted
<1> QED BY <1>0, <1>5 DEF P

\* The group of a pixel: there is one, and only one.
HasPixel(s, g, p) == GroupStart(s, g) <= p /\ p < PixelsTo(s, g)
LEMMA GroupIs ==
  ASSUME NEW s, s.groups \in Seq(Nat \ {0}), NEW p \in Nat, p < PixelsOf(s)
  PROVE  GroupAt(s, p) \in 1..Len(s.groups) /\ HasPixel(s, GroupAt(s, p), p)
<1> DEFINE n == Len(s.groups)
           P(k) == PixelsTo(s, k)
           Z == {k \in Nat : k <= n /\ p < P(k) => \E g \in 1..n : P(g - 1) <= p /\ p < P(g)}
<1>0. n \in Nat
  OBVIOUS
<1>1. P(0) = 0 /\ \A k \in 0..n : P(k) \in Nat
  BY PixelsToIs
<1>p. p < P(n)
  BY DEF PixelsOf
<1> HIDE DEF P, n
<1>2. 0 \in Z
  BY <1>1
<1>3. ASSUME NEW k \in Z PROVE k + 1 \in Z
  <2>0. k \in Nat
    OBVIOUS
  <2>1. SUFFICES ASSUME k + 1 <= n, p < P(k + 1) PROVE \E g \in 1..n : P(g - 1) <= p /\ p < P(g)
    BY <2>0
  <2>2. k + 1 \in 1..n /\ k \in 0..n /\ (k + 1) - 1 = k /\ P(k) \in Nat
    BY <2>0, <2>1, <1>0, <1>1
  <2>3. CASE p < P(k)
    BY <2>2, <2>3
  <2>4. CASE ~(p < P(k))
    <3>1. P((k + 1) - 1) <= p
      BY <2>2, <2>4
    <3> QED BY <2>1, <2>2, <3>1
  <2> QED BY <2>3, <2>4
<1>4. Z = Nat
  <2>1. Z \in SUBSET Nat
    OBVIOUS
  <2> HIDE DEF Z
  <2> QED BY <1>2, <1>3, <2>1, Counted
<1>5. \E g \in 1..n : P(g - 1) <= p /\ p < P(g)
  <2>1. n \in Z
    BY <1>0, <1>4
  <2> QED BY <1>0, <1>p, <2>1
<1>6. \E g \in 1..Len(s.groups) : GroupStart(s, g) <= p /\ p < PixelsTo(s, g)
  BY <1>5 DEF P, n, GroupStart
<1>7. LET c == CHOOSE g \in 1..Len(s.groups) : GroupStart(s, g) <= p /\ p < PixelsTo(s, g)
      IN  c \in 1..Len(s.groups) /\ GroupStart(s, c) <= p /\ p < PixelsTo(s, c)
  BY <1>6, Zenon
<1> QED BY <1>7, Zenon DEF GroupAt, HasPixel

LEMMA OneGroup ==
  ASSUME NEW s, s.groups \in Seq(Nat \ {0}), NEW p \in Nat,
         NEW g \in 1..Len(s.groups), NEW h \in 1..Len(s.groups), HasPixel(s, g, p), HasPixel(s, h, p)
  PROVE  g = h
<1> DEFINE n == Len(s.groups)
<1>0. n \in Nat
  OBVIOUS
<1>1. ASSUME NEW a \in 1..n, NEW b \in 1..n, a < b, HasPixel(s, a, p), HasPixel(s, b, p) PROVE FALSE
  <2>1. a \in 0..n /\ b - 1 \in 0..n /\ a <= b - 1
    BY <1>0, <1>1
  <2>2. PixelsTo(s, a) <= PixelsTo(s, b - 1)
    BY <2>1, PixelsGrow
  <2>3. PixelsTo(s, a) \in Nat /\ PixelsTo(s, b - 1) \in Nat
    BY <2>1, PixelsToIs
  <2> QED BY <1>1, <2>2, <2>3 DEF HasPixel, GroupStart
<1>2. g < h \/ h < g \/ g = h
  BY <1>0
<1> QED BY <1>1, <1>2

\* The first pixel of a group is in it, and its pixels are in the layout.
LEMMA GroupSpans ==
  ASSUME NEW s, s.groups \in Seq(Nat \ {0}), NEW g \in 1..Len(s.groups)
  PROVE  /\ GroupStart(s, g) \in Nat /\ HasPixel(s, g, GroupStart(s, g))
         /\ GroupStart(s, g) + s.groups[g] = PixelsTo(s, g)
         /\ PixelsTo(s, g) <= PixelsOf(s) /\ PixelsOf(s) \in Nat
<1> DEFINE n == Len(s.groups)
<1>0. n \in Nat /\ g \in 0..n /\ n \in 0..n /\ g <= n /\ g - 1 \in 0..n
  OBVIOUS
<1>1. PixelsTo(s, g) = PixelsTo(s, g - 1) + s.groups[g] /\ s.groups[g] \in Nat /\ s.groups[g] # 0
  BY PixelsToIs
<1>2. PixelsTo(s, g - 1) \in Nat /\ PixelsTo(s, g) \in Nat /\ PixelsTo(s, n) \in Nat
  BY <1>0, PixelsToIs
<1>3. PixelsTo(s, g) <= PixelsTo(s, n)
  BY <1>0, PixelsGrow
<1> QED BY <1>1, <1>2, <1>3 DEF GroupStart, HasPixel, PixelsOf

-----------------------------------------------------------------------------
(* The device view: what it asks for is allowed.                            *)

\* The fields of the view have their types.
Folded(closed, schema) ==
  /\ DOMAIN closed = PageSet /\ DOMAIN schema = PageSet
  /\ \A p \in PageSet : closed[p] \subseteq 1..Len(schema[p])
Words == Drafts \union STRING
Typed(w) ==
  /\ w.page \in PageSet /\ w.selected \in Nat \ {0} /\ w.esc \in 0..2
  /\ w.focus \in {"draft", "apply", "cancel"} /\ (w.draft # "" => w.draft \in Words)
  /\ w.pixel \in Nat /\ w.choice \in Nat \ {0}
  /\ Folded(w.closed, w.schema)

\* Where the view is, and what of it a step leaves to be painted: the whole screen when
\* the page, its rows or the draft go, and something whenever the view moves.
Placed(w, x) ==
  /\ x.page = w.page /\ x.selected = w.selected /\ x.section = w.section /\ x.grid = w.grid
  /\ x.closed = w.closed /\ x.schema = w.schema
Asked(w, x) ==
  /\ w.dirty => x.dirty
  /\ w.full => x.full
  /\ ~x.full => x.page = w.page /\ x.schema = w.schema /\ (w.editing => x.editing)
  /\ ~x.dirty => Placed(w, x)
Does(w, x) == IsView(x) /\ Typed(x) /\ Asked(w, x)

\* What a request may ask for, of a snapshot s.
Allowed(w, s) ==
  /\ w.act.type = "set" =>
       \E i \in DOMAIN Rows(w, s) : LET r == Rows(w, s)[i] IN
         r.key = w.act.key /\ Changeable(r) /\ ~Hidden(w, s, i)
  /\ w.act.type = "pixel" =>
       /\ w.act.layout = s.groups /\ w.act.index + w.act.count <= PixelsOf(s)
       /\ w.group => \E g \in DOMAIN s.groups : /\ w.act.index = GroupStart(s, g)
                                                /\ w.act.count = s.groups[g]
  /\ w.act.type = "cell" => s.leds
  /\ w.act.type \in {"press", "reset"} => s.game /\ s.ready
  /\ w.act.type = "press" => w.act.box \in s.enabled
Idle(w) == w.act.type \notin {"set", "pixel", "cell", "press", "reset"}
Fine(w, x, s) == Does(w, x) /\ Allowed(x, s)
\* A step that asks for nothing.
Tame(w, x) == Does(w, x) /\ Idle(x)

LEMMA DoesTwice == \A w, x, y : Does(w, x) /\ Does(x, y) => Does(w, y)
BY DEF Does, Asked, Placed
LEMMA FineAfter == \A w, x, y, s : Does(w, x) /\ Fine(x, y, s) => Fine(w, y, s)
BY DoesTwice DEF Fine
LEMMA TameTwice == \A w, x, y : Does(w, x) /\ Tame(x, y) => Tame(w, y)
BY DoesTwice DEF Tame
LEMMA DoesSame == \A w : IsView(w) /\ Typed(w) => Does(w, w)
BY DEF Does, Asked, Placed
LEMMA IdleAllowed == \A w, s : Idle(w) => Allowed(w, s)
BY DEF Idle, Allowed
LEMMA TameFine == \A w, x, s : Tame(w, x) => Fine(w, x, s)
BY IdleAllowed DEF Tame, Fine

\* The steps that leave the view where it is.
LEMMA DirtyDoes ==
  \A w : IsView(w) /\ Typed(w) => Does(w, Dirty(w)) /\ Does(w, Repaint(w)) /\ Does(w, Cancel(w))
<1> SUFFICES ASSUME NEW w, IsView(w), Typed(w)
             PROVE  Does(w, Dirty(w)) /\ Does(w, Repaint(w)) /\ Does(w, Cancel(w))
  OBVIOUS
<1>1. Does(w, Dirty(w))
  <2> DEFINE x == Dirty(w)
  <2>1. IsView(x) /\ Typed(x)
    BY DEF Typed, IsView, Dirty, ViewFields
  <2>2. x.dirty /\ (w.full => x.full) /\ Placed(w, x) /\ (w.editing => x.editing)
    BY DEF Placed, IsView, Dirty, ViewFields
  <2> HIDE DEF x
  <2>3. Does(w, x)
    BY <2>1, <2>2 DEF Does, Asked, Placed
  <2> QED BY <2>3 DEF x
<1>2. Does(w, Repaint(w))
  <2> DEFINE x == Repaint(w)
  <2>1. IsView(x) /\ Typed(x)
    BY DEF Typed, IsView, Repaint, ViewFields
  <2>2. x.dirty /\ x.full
    BY DEF IsView, Repaint, ViewFields
  <2> HIDE DEF x
  <2>3. Does(w, x)
    BY <2>1, <2>2 DEF Does, Asked
  <2> QED BY <2>3 DEF x
<1>3. Does(w, Cancel(w))
  <2> DEFINE x == Cancel(w)
  <2>0. x.choice = 1
    BY DEF IsView, Cancel, ClearDraft, Repaint, ViewFields
  <2>1. IsView(x) /\ x.dirty /\ x.full /\ x.focus = "draft" /\ x.draft = ""
    BY DEF IsView, Cancel, ClearDraft, Repaint, ViewFields
  <2>2. /\ x.page = w.page /\ x.selected = w.selected /\ x.esc = w.esc /\ x.pixel = w.pixel
        /\ x.closed = w.closed /\ x.schema = w.schema
    BY DEF IsView, Cancel, ClearDraft, Repaint, ViewFields
  <2> HIDE DEF x
  <2>3. Typed(x)
    <3>0. 1 \in Nat \ {0}
      OBVIOUS
    <3>1. x.choice \in Nat \ {0}
      BY <2>0, <3>0, Zenon
    <3>2. x.focus \in {"draft", "apply", "cancel"}
      BY <2>1
    <3>3. x.draft # "" => x.draft \in Words
      BY <2>1, Zenon
    <3> QED BY <2>2, <3>1, <3>2, <3>3, Zenon DEF Typed
  <2>4. Does(w, x)
    BY <2>1, <2>3 DEF Does, Asked
  <2> QED BY <2>4 DEF x
<1> QED BY <1>1, <1>2, <1>3

LEMMA MarkDoes ==
  ASSUME NEW w, IsView(w), Typed(w)
  PROVE  /\ \A a : Does(w, [w EXCEPT !.act = a])
         /\ \A a : Does(w, [w EXCEPT !.cr = a])
         /\ \A a : Does(w, [w EXCEPT !.drag = a])
         /\ \A a : Does(w, [w EXCEPT !.active = a])
         /\ \A a : Does(w, [w EXCEPT !.group = a])
         /\ \A a \in 0..2 : Does(w, [w EXCEPT !.esc = a])
         /\ \A a \in Nat : Does(w, [w EXCEPT !.pixel = a])
         /\ \A a \in {"draft", "apply", "cancel"} : Does(w, [w EXCEPT !.focus = a])
<1>1. \A a : Does(w, [w EXCEPT !.act = a])
  BY DEF Does, Typed, Asked, Placed, IsView, ViewFields
<1>2. \A a : Does(w, [w EXCEPT !.cr = a])
  BY DEF Does, Typed, Asked, Placed, IsView, ViewFields
<1>3. \A a : Does(w, [w EXCEPT !.drag = a])
  BY DEF Does, Typed, Asked, Placed, IsView, ViewFields
<1>4. \A a : Does(w, [w EXCEPT !.active = a])
  BY DEF Does, Typed, Asked, Placed, IsView, ViewFields
<1>5. \A a : Does(w, [w EXCEPT !.group = a])
  BY DEF Does, Typed, Asked, Placed, IsView, ViewFields
<1>6. \A a \in 0..2 : Does(w, [w EXCEPT !.esc = a])
  BY DEF Does, Typed, Asked, Placed, IsView, ViewFields
<1>7. \A a \in Nat : Does(w, [w EXCEPT !.pixel = a])
  BY DEF Does, Typed, Asked, Placed, IsView, ViewFields
<1>8. \A a \in {"draft", "apply", "cancel"} : Does(w, [w EXCEPT !.focus = a])
  BY DEF Does, Typed, Asked, Placed, IsView, ViewFields
<1> QED BY <1>1, <1>2, <1>3, <1>4, <1>5, <1>6, <1>7, <1>8

\* The lesser and the greater of two numbers.
\* The pixel is brought into the layout; with groups, to the first of its group.
LEMMA SyncPixelDoes ==
  ASSUME NEW w, IsView(w), Typed(w), NEW s, Published(s), s.groups # <<>>
  PROVE  LET x == SyncPixel(w, s) IN
         /\ Does(w, x) /\ x.act = w.act /\ x.group = w.group
         /\ x.pixel < PixelsOf(s)
         /\ x.group => \E g \in 1..Len(s.groups) : x.pixel = GroupStart(s, g)
<1> DEFINE n == Len(s.groups)
           P == PixelsOf(s)
           p == Min({w.pixel, P - 1})
           g == GroupAt(s, p)
           q == IF w.group THEN GroupStart(s, g) ELSE p
           x == [w EXCEPT !.pixel = q]
<1>1. n \in Nat \ {0} /\ n \in 1..n /\ s.groups \in Seq(Nat \ {0})
  BY DEF Published
<1>2. P \in Nat \ {0}
  <2>1. GroupStart(s, n) \in Nat /\ GroupStart(s, n) + s.groups[n] = PixelsTo(s, n) /\ s.groups[n] \in Nat \ {0}
    BY <1>1, GroupSpans
  <2> QED BY <2>1 DEF PixelsOf
<1>3. w.pixel \in Nat
  BY DEF Typed
<1>4. p \in Nat /\ p < P
  <2> HIDE DEF P
  <2>1. P - 1 \in Int /\ w.pixel \in Int
    BY <1>2, <1>3
  <2>2. p = IF w.pixel <= P - 1 THEN w.pixel ELSE P - 1
    BY <2>1, MinOfTwo
  <2> QED BY <1>2, <1>3, <2>2
<1>5. g \in 1..n /\ HasPixel(s, g, p)
  <2> HIDE DEF p
  <2> QED BY <1>1, <1>4, GroupIs
<1>6. GroupStart(s, g) \in Nat /\ GroupStart(s, g) <= p
  <2> HIDE DEF p, g
  <2> QED BY <1>1, <1>5, GroupSpans DEF HasPixel
<1>7. q \in Nat /\ q < P
  <2> HIDE DEF p, g, P
  <2> QED BY <1>2, <1>4, <1>6
<1>8. SyncPixel(w, s) = x
  BY Zenon DEF SyncPixel
<1>9. w.group => q = GroupStart(s, g)
  OBVIOUS
<1> HIDE DEF q, g
<1>10. Does(w, x)
  BY <1>7, MarkDoes
<1>11. x.act = w.act /\ x.group = w.group /\ x.pixel = q
  BY DEF IsView, ViewFields
<1> HIDE DEF x
<1> QED BY <1>5, <1>7, <1>8, <1>9, <1>10, <1>11

\* The pixels that are tested are those of the layout.
LEMMA PixelActionFine ==
  ASSUME NEW w, IsView(w), Typed(w), NEW s, Published(s), s.groups # <<>>
  PROVE  Fine(w, PixelAction(w, s), s)
<1> DEFINE x == SyncPixel(w, s)
           count == IF x.group THEN s.groups[GroupAt(s, x.pixel)] ELSE 1
           a == [type |-> "pixel", index |-> x.pixel, layout |-> s.groups, count |-> count]
           y == [x EXCEPT !.act = a]
<1>1. /\ Does(w, x) /\ x.pixel < PixelsOf(s)
      /\ x.group => \E g \in 1..Len(s.groups) : x.pixel = GroupStart(s, g)
  BY SyncPixelDoes
<1>2. PixelAction(w, s) = y
  BY Zenon DEF PixelAction
<1> HIDE DEF x
<1>3. IsView(x) /\ Typed(x) /\ x.pixel \in Nat
  BY <1>1 DEF Does, Typed
<1>4. s.groups \in Seq(Nat \ {0}) /\ DOMAIN s.groups = 1..Len(s.groups)
  BY DEF Published
<1>5. ASSUME x.group
      PROVE  \E g \in DOMAIN s.groups : x.pixel = GroupStart(s, g) /\ count = s.groups[g]
                                        /\ x.pixel + count <= PixelsOf(s)
  <2>1. PICK g \in 1..Len(s.groups) : x.pixel = GroupStart(s, g)
    BY <1>1, <1>5
  <2>2. GroupAt(s, x.pixel) \in 1..Len(s.groups) /\ HasPixel(s, GroupAt(s, x.pixel), x.pixel)
    BY <1>1, <1>3, <1>4, GroupIs
  <2>3. /\ HasPixel(s, g, x.pixel) /\ GroupStart(s, g) + s.groups[g] = PixelsTo(s, g)
        /\ PixelsTo(s, g) <= PixelsOf(s)
    BY <1>4, <2>1, GroupSpans
  <2>4. GroupAt(s, x.pixel) = g
    BY <1>3, <1>4, <2>1, <2>2, <2>3, OneGroup
  <2>5. count = s.groups[g]
    BY <1>5, <2>4
  <2> HIDE DEF count
  <2>6. x.pixel + count <= PixelsOf(s)
    BY <2>1, <2>3, <2>5
  <2> QED BY <1>4, <2>1, <2>5, <2>6
<1>6. ASSUME ~x.group PROVE x.pixel + count <= PixelsOf(s)
  <2>1. PixelsOf(s) \in Nat
    <3>1. 1 \in 1..Len(s.groups)
      BY <1>4
    <3> QED BY <1>4, <3>1, GroupSpans
  <2>2. count = 1
    BY <1>6
  <2> HIDE DEF count
  <2> QED BY <1>1, <1>3, <2>1, <2>2
<1> HIDE DEF count
<1>7. y.act = a /\ y.group = x.group
  BY <1>3 DEF IsView, ViewFields
<1>8. Does(x, y)
  <2> HIDE DEF a
  <2> QED BY <1>3, MarkDoes
<1>9. a.type = "pixel" /\ a.index = x.pixel /\ a.layout = s.groups /\ a.count = count
  OBVIOUS
<1> HIDE DEF y, a
<1>10. Allowed(y, s)
  BY <1>5, <1>6, <1>7, <1>9 DEF Allowed
<1> QED BY <1>1, <1>2, <1>8, <1>10, DoesTwice DEF Fine

LEMMA StepPixelFine ==
  ASSUME NEW w, IsView(w), Typed(w), Idle(w), NEW s, Published(s), s.groups # <<>>, NEW d \in {-1, 1}
  PROVE  Fine(w, StepPixel(w, s, d), s)
<1> DEFINE x == SyncPixel(w, s)
           g == GroupAt(s, x.pixel)
           out == IF x.group THEN g + d \notin DOMAIN s.groups ELSE x.pixel + d \notin 0..PixelsOf(s) - 1
           p == IF x.group THEN GroupStart(s, g + d) ELSE x.pixel + d
           y == [x EXCEPT !.pixel = p]
<1>1. Does(w, x) /\ x.act = w.act
  BY SyncPixelDoes
<1>2. StepPixel(w, s, d) = IF out THEN Dirty(x) ELSE PixelAction(Dirty(y), s)
  BY Zenon DEF StepPixel
<1> HIDE DEF x
<1>3. IsView(x) /\ Typed(x)
  BY <1>1 DEF Does
<1>4. Tame(w, Dirty(x))
  <2>1. Does(x, Dirty(x)) /\ Dirty(x).act = x.act
    BY <1>3, DirtyDoes, QuietKept
  <2> QED BY <1>1, <2>1, DoesTwice DEF Tame, Idle
<1>5. ASSUME ~out PROVE Fine(w, PixelAction(Dirty(y), s), s)
  <2>1. p \in Nat
    <3>1. CASE x.group
      <4>1. g + d \in 1..Len(s.groups)
        BY <1>5, <3>1 DEF Published
      <4>2. GroupStart(s, g + d) \in Nat
        BY <4>1, GroupSpans DEF Published
      <4> QED BY <3>1, <4>2
    <3>2. CASE ~x.group
      <4>1. x.pixel + d \in 0..PixelsOf(s) - 1 /\ x.pixel \in Nat
        BY <1>3, <1>5, <3>2 DEF Typed
      <4> QED BY <3>2, <4>1
    <3> QED BY <3>1, <3>2
  <2> HIDE DEF p
  <2>2. Does(x, y) /\ IsView(y) /\ Typed(y)
    BY <1>3, <2>1, MarkDoes DEF Does
  <2> HIDE DEF y
  <2>3. Does(y, Dirty(y)) /\ IsView(Dirty(y)) /\ Typed(Dirty(y))
    BY <2>2, DirtyDoes DEF Does
  <2>4. Fine(Dirty(y), PixelAction(Dirty(y), s), s)
    BY <2>3, PixelActionFine
  <2>5. Does(w, Dirty(y))
    BY <1>1, <2>2, <2>3, DoesTwice
  <2> QED BY <2>4, <2>5, FineAfter
<1> HIDE DEF out, y
<1> QED BY <1>2, <1>4, <1>5, TameFine

LEMMA JumpPixelFine ==
  ASSUME NEW w, IsView(w), Typed(w), Idle(w), NEW s, Published(s), s.groups # <<>>, NEW k
  PROVE  Fine(w, JumpPixel(w, s, k), s)
<1> DEFINE x == SyncPixel(w, s)
           p == IF k = "H" THEN 0 ELSE PixelsOf(s) - 1
           z == [x EXCEPT !.pixel = p, !.dirty = TRUE]
           y == SyncPixel(z, s)
<1>1. Does(w, x) /\ x.act = w.act /\ x.pixel < PixelsOf(s)
  BY SyncPixelDoes
<1>2. JumpPixel(w, s, k) = IF y.pixel = x.pixel THEN y ELSE PixelAction(y, s)
  BY Zenon DEF JumpPixel
<1> HIDE DEF x
<1>3. IsView(x) /\ Typed(x) /\ x.pixel \in Nat
  BY <1>1 DEF Does, Typed
<1>4. p \in Nat
  <2>1. PixelsOf(s) \in Nat
    <3>1. 1 \in 1..Len(s.groups) /\ s.groups \in Seq(Nat \ {0})
      BY DEF Published
    <3> QED BY <3>1, GroupSpans
  <2> QED BY <1>1, <1>3, <2>1
<1> HIDE DEF p
<1>5. Does(x, z) /\ z.act = x.act /\ IsView(z) /\ Typed(z)
  BY <1>3, <1>4 DEF Does, Typed, Asked, Placed, IsView, ViewFields
<1> HIDE DEF z
<1>6. Does(z, y) /\ y.act = z.act /\ IsView(y) /\ Typed(y)
  BY <1>5, SyncPixelDoes DEF Does
<1> HIDE DEF y
<1>7. Does(w, y)
  BY <1>1, <1>5, <1>6, DoesTwice
<1>8. Tame(w, y)
  BY <1>1, <1>5, <1>6, <1>7 DEF Tame, Idle
<1>9. Fine(y, PixelAction(y, s), s)
  BY <1>6, PixelActionFine
<1> QED BY <1>2, <1>7, <1>8, <1>9, FineAfter, TameFine

LEMMA PageSetIs == PageSet = {"device", "led", "pixel", "game"}
<1>1. DOMAIN Pages = 1..4 /\ Pages[1] = "device" /\ Pages[2] = "led" /\ Pages[3] = "pixel" /\ Pages[4] = "game"
  BY DEF Pages
<1>2. PageSet = {Pages[i] : i \in 1..4}
  BY <1>1, Zenon DEF PageSet, ToSet
<1> HIDE DEF Pages
<1>3. 1..4 = {1, 2, 3, 4}
  OBVIOUS
<1> QED BY <1>1, <1>2, <1>3

LEMMA RowsTyped ==
  ASSUME NEW w, Typed(w), NEW s, Published(s)
  PROVE  Rows(w, s) \in Seq(SnapshotRow)
BY DEF Typed, Published, Rows

\* The view is in line with the snapshot.
Ready(w, s) ==
  /\ IsView(w) /\ Typed(w) /\ Idle(w)
  /\ w.schema[w.page] = Schema(w, s)
  /\ HasRow(w, s) => ~Hidden(w, s, w.selected)
  /\ ChoiceHolds(w, s)
LEMMA ReadySame ==
  ASSUME NEW w, NEW x, NEW s, Ready(w, s), Alike(w, x), Does(w, x), Idle(x)
  PROVE  Ready(x, s)
<1>1. w.schema[w.page] = Schema(w, s) /\ (HasRow(w, s) => ~Hidden(w, s, w.selected)) /\ ChoiceHolds(w, s)
  BY DEF Ready
<1>2. x.schema[x.page] = Schema(x, s)
  BY <1>1, AlikeReads, Zenon DEF Alike
<1>3. HasRow(x, s) => ~Hidden(x, s, x.selected)
  BY <1>1, AlikeReads DEF Alike
<1>4. ChoiceHolds(x, s)
  BY <1>1, AlikeReads
<1> QED BY <1>2, <1>3, <1>4 DEF Ready, Does

\* The next page that can be shown.
LEMMA GoesDoes ==
  ASSUME NEW w, IsView(w), Typed(w), NEW p \in PageSet, NEW g
  PROVE  LET x == Repaint([w EXCEPT !.page = p, !.selected = 1, !.section = FALSE, !.grid = g])
         IN  Does(w, x) /\ x.act = w.act
<1> DEFINE x == Repaint([w EXCEPT !.page = p, !.selected = 1, !.section = FALSE, !.grid = g])
<1>0. x.selected = 1
  BY DEF IsView, Repaint, ViewFields
<1>1. IsView(x) /\ x.dirty /\ x.full /\ x.page = p
  BY DEF IsView, Repaint, ViewFields
<1>2. /\ x.esc = w.esc /\ x.focus = w.focus /\ x.draft = w.draft /\ x.choice = w.choice
      /\ x.pixel = w.pixel /\ x.closed = w.closed /\ x.schema = w.schema /\ x.act = w.act
  BY DEF IsView, Repaint, ViewFields
<1> HIDE DEF x
<1>3. 1 \in Nat \ {0}
  OBVIOUS
<1>4. Typed(x)
  BY <1>0, <1>1, <1>2, <1>3, Zenon DEF Typed
<1>5. Does(w, x)
  BY <1>1, <1>4 DEF Does, Asked
<1> QED BY <1>2, <1>5 DEF x

LEMMA LeastOf == ASSUME NEW Q \in SUBSET Nat, Q # {} PROVE Min(Q) \in Q
<1>1. \E x \in Q : \A y \in Q : x <= y
  BY LeastIn
<1> QED BY <1>1, Zenon DEF Min

LEMMA NextPageDoes ==
  ASSUME NEW w, IsView(w), Typed(w), NEW s, NEW d \in {-1, 1}
  PROVE  Does(w, NextPage(w, s, d)) /\ NextPage(w, s, d).act = w.act
<1> DEFINE n == Len(Pages)
           at == CHOOSE i \in 1..n : Pages[i] = w.page
           To(k) == ((at - 1 + n * n + d * k) % n) + 1
           Go(k) == Pages[To(k)]
           Q == {j \in 1..n : Available(Go(j), s)}
           k == Min(Q)
           x == Repaint([w EXCEPT !.page = Go(k), !.selected = 1, !.section = FALSE,
                                  !.grid = Go(k) \in GridPages])
<1>1. NextPage(w, s, d) = x
  BY Zenon DEF NextPage
<1>2. n = 4 /\ Pages[1] = "device" /\ \A i \in 1..4 : Pages[i] \in PageSet
  <2>1. n = 4 /\ Pages[1] = "device"
    BY DEF Pages
  <2>2. \A i \in DOMAIN Pages : Pages[i] \in PageSet
    BY Zenon DEF PageSet, ToSet
  <2>3. DOMAIN Pages = 1..4
    BY DEF Pages
  <2> QED BY <2>1, <2>2, <2>3
<1>3. at \in 1..4
  <2>1. \E i \in DOMAIN Pages : Pages[i] = w.page
    BY Zenon DEF Typed, PageSet, ToSet
  <2>2. DOMAIN Pages = 1..n
    BY DEF Pages
  <2>3. \E i \in 1..n : Pages[i] = w.page
    BY <2>1, <2>2
  <2>4. at \in 1..n
    BY <2>3, Zenon
  <2> QED BY <1>2, <2>4
<1> HIDE DEF n, at
<1>4. \A j \in 1..4 : To(j) \in 1..4
  BY <1>2, <1>3
<1>5. \E j \in 1..4 : To(j) = 1
  <2>1. CASE d = 1
    <3>1. 5 - at \in 1..4 /\ To(5 - at) = 1
      BY <1>2, <1>3, <2>1
    <3> QED BY <3>1
  <2>2. CASE d = -1 /\ at = 1
    <3>1. To(4) = 1
      BY <1>2, <2>2
    <3> QED BY <3>1
  <2>3. CASE d = -1 /\ at # 1
    <3>1. at - 1 \in 1..4 /\ To(at - 1) = 1
      BY <1>2, <1>3, <2>3
    <3> QED BY <3>1
  <2> QED BY <2>1, <2>2, <2>3
<1> HIDE DEF To
<1>6. k \in 1..4
  <2>1. PICK j \in 1..4 : To(j) = 1
    BY <1>5
  <2>2. Available(Go(j), s)
    BY <1>2, <2>1 DEF Available
  <2>3. Q # {} /\ Q \in SUBSET Nat /\ Q \subseteq 1..4
    BY <1>2, <2>2
  <2> HIDE DEF Q
  <2> QED BY <2>3, LeastOf
<1>7. Go(k) \in PageSet
  <2> HIDE DEF k
  <2> QED BY <1>2, <1>4, <1>6
<1> DEFINE p == Go(k)
           g == p \in GridPages
<1>8. x = Repaint([w EXCEPT !.page = p, !.selected = 1, !.section = FALSE, !.grid = g])
  OBVIOUS
<1>9. p \in PageSet
  BY <1>7
<1> HIDE DEF p, g
<1> HIDE DEF x
<1>10. LET y == Repaint([w EXCEPT !.page = p, !.selected = 1, !.section = FALSE, !.grid = g])
       IN  Does(w, y) /\ y.act = w.act
  BY <1>9, GoesDoes, Zenon
<1> QED BY <1>1, <1>8, <1>10, Zenon

\* A section is folded where the rows have one.
LEMMA SameLength ==
  ASSUME NEW w, Typed(w), NEW s, Published(s), w.schema[w.page] = Schema(w, s)
  PROVE  Len(w.schema[w.page]) = Len(Rows(w, s)) /\ Len(Rows(w, s)) \in Nat
<1>1. Rows(w, s) \in Seq(SnapshotRow)
  BY RowsTyped
<1> DEFINE r == Rows(w, s)
<1>2. Schema(w, s) = [i \in DOMAIN r |-> <<r[i].key, r[i].cat>>]
  BY Zenon DEF Schema
<1> HIDE DEF r
<1>3. DOMAIN r = 1..Len(r) /\ Len(r) \in Nat
  BY <1>1 DEF r
<1>4. Len([i \in DOMAIN r |-> <<r[i].key, r[i].cat>>]) = Len(r)
  BY <1>3
<1> QED BY <1>2, <1>3, <1>4 DEF r

LEMMA ToggleDoes ==
  ASSUME NEW w, IsView(w), Typed(w), NEW s, Published(s), w.schema[w.page] = Schema(w, s), NEW how
  PROVE  Does(w, ToggleSection(w, s, how)) /\ ToggleSection(w, s, how).act = w.act
<1> DEFINE p == w.page
           c == w.closed[p]
           e == IF how = "close" \/ (how = "flip" /\ w.selected \notin c)
                THEN c \union {w.selected} ELSE c \ {w.selected}
           closed == [w.closed EXCEPT ![p] = e]
           x == Repaint([w EXCEPT !.closed = closed])
<1>1. CASE ~w.section \/ w.selected > Len(Rows(w, s)) \/ ~SectionStart(w, s, w.selected)
  BY <1>1, DoesSame DEF ToggleSection
<1>2. CASE ~(~w.section \/ w.selected > Len(Rows(w, s)) \/ ~SectionStart(w, s, w.selected))
  <2>1. ToggleSection(w, s, how) = x
    <3>1. ToggleSection(w, s, how) =
            Repaint([w EXCEPT !.closed[w.page] =
              IF how = "close" \/ (how = "flip" /\ w.selected \notin c)
              THEN c \union {w.selected} ELSE c \ {w.selected}])
      BY <1>2, Zenon DEF ToggleSection
    <3> HIDE DEF c
    <3> QED BY <3>1
  <2>2. w.selected \in 1..Len(w.schema[p])
    <3>1. Len(w.schema[p]) = Len(Rows(w, s)) /\ Len(Rows(w, s)) \in Nat
      BY SameLength
    <3>2. w.selected \in Nat \ {0}
      BY DEF Typed
    <3>3. ~(w.selected > Len(Rows(w, s)))
      BY <1>2
    <3> HIDE DEF p, c, e, closed, x
    <3>4. w.selected \in 1..Len(Rows(w, s))
      BY <3>1, <3>2, <3>3
    <3> QED BY <3>1, <3>4, Zenon DEF p
  <2>3. Folded(w.closed, w.schema) /\ p \in PageSet
    BY DEF Typed
  <2>4. e \subseteq 1..Len(w.schema[p])
    BY <2>2, <2>3 DEF Folded
  <2> HIDE DEF e
  <2>5. Folded(closed, w.schema)
    BY <2>3, <2>4 DEF Folded
  <2> HIDE DEF closed
  <2>6. IsView(x) /\ x.dirty /\ x.full /\ x.closed = closed /\ x.schema = w.schema /\ x.act = w.act
    BY DEF IsView, Repaint, ViewFields
  <2>7. /\ x.page = w.page /\ x.selected = w.selected /\ x.esc = w.esc /\ x.focus = w.focus
        /\ x.draft = w.draft /\ x.choice = w.choice /\ x.pixel = w.pixel
    BY DEF IsView, Repaint, ViewFields
  <2> HIDE DEF x
  <2>8. Typed(x)
    BY <2>5, <2>6, <2>7, Zenon DEF Typed
  <2>9. Does(w, x)
    BY <2>6, <2>8 DEF Does, Asked
  <2> QED BY <2>1, <2>6, <2>9
<1> QED BY <1>1, <1>2

\* A request to change the row that the view is on.
LEMMA SetFine ==
  ASSUME NEW w, NEW s, Ready(w, s), Published(s), HasRow(w, s), Changeable(Row(w, s)),
         NEW x, Does(w, x), x.page = w.page, x.closed = w.closed,
         x.act.type = "set", x.act.key = Row(w, s).key
  PROVE  Fine(w, x, s)
<1>1. w.selected \in DOMAIN Rows(w, s)
  <2>1. Rows(w, s) \in Seq(SnapshotRow)
    BY RowsTyped DEF Ready
  <2>2. w.selected \in Nat \ {0} /\ w.selected <= Len(Rows(w, s))
    BY DEF Ready, Typed, HasRow
  <2> QED BY <2>1, <2>2
<1>2. Rows(x, s) = Rows(w, s)
  BY DEF Rows
<1>3. \A i : Hidden(x, s, i) <=> Hidden(w, s, i)
  <2>1. \A i : SectionStart(x, s, i) <=> SectionStart(w, s, i)
    BY <1>2, Zenon DEF SectionStart
  <2>2. \A i : StartOf(x, s, i) = StartOf(w, s, i)
    BY <1>2, Zenon DEF StartOf
  <2> QED BY <2>1, <2>2, Zenon DEF Hidden
<1>4. ~Hidden(w, s, w.selected) /\ Rows(w, s)[w.selected] = Row(w, s)
  BY DEF Ready, Row
<1>5. LET r == Rows(x, s)[w.selected] IN
        r.key = x.act.key /\ Changeable(r) /\ ~Hidden(x, s, w.selected)
  BY <1>2, <1>3, <1>4
<1>6. Allowed(x, s)
  BY <1>1, <1>2, <1>5 DEF Allowed
<1> QED BY <1>6 DEF Fine

LEMMA ReadyFine == \A w, s : Ready(w, s) => Fine(w, w, s) /\ Tame(w, w)
BY DoesSame, IdleAllowed DEF Ready, Fine, Tame

LEMMA ActIs == ASSUME NEW k, NEW d PROVE Act("set", k, d).type = "set" /\ Act("set", k, d).key = k
BY DEF Act

LEMMA AdjustFine ==
  ASSUME NEW w, NEW s, Ready(w, s), Published(s), NEW key
  PROVE  Fine(w, Adjust(w, s, key), s)
<1> DEFINE g == HasRow(w, s) /\ Changeable(Row(w, s)) /\ ~Row(w, s).secret
                /\ Adjusted(Row(w, s), key) # Row(w, s).value
           a == Act("set", Row(w, s).key, Adjusted(Row(w, s), key))
           y == [w EXCEPT !.act = a]
           x == Dirty(y)
<1>1. Adjust(w, s, key) = IF g THEN x ELSE w
  BY Zenon DEF Adjust
<1>2. a.type = "set" /\ a.key = Row(w, s).key
  BY ActIs
<1>3. g => HasRow(w, s) /\ Changeable(Row(w, s))
  OBVIOUS
<1>w. IsView(w) /\ Typed(w)
  BY DEF Ready
<1> HIDE DEF a, g
<1>4. Does(w, y) /\ y.act = a /\ y.page = w.page /\ y.closed = w.closed
  BY <1>w, MarkDoes DEF IsView, ViewFields
<1> HIDE DEF y
<1>5. Does(y, x) /\ x.act = y.act /\ x.page = y.page /\ x.closed = y.closed
  BY <1>4, DirtyDoes DEF Does, IsView, ViewFields, Dirty
<1> HIDE DEF x
<1>6. Does(w, x)
  BY <1>4, <1>5, DoesTwice
<1>7. g => Fine(w, x, s)
  BY <1>2, <1>3, <1>4, <1>5, <1>6, SetFine
<1> QED BY <1>1, <1>7, ReadyFine

LEMMA CancelTame == ASSUME NEW w, IsView(w), Typed(w), Idle(w)
                    PROVE  Tame(w, Cancel(w)) /\ Tame(w, Repaint(w)) /\ Tame(w, Dirty(w)) /\ Tame(w, w)
BY DirtyDoes, DoesSame, QuietKept DEF Tame, Idle

LEMMA ApplyFine ==
  ASSUME NEW w, NEW s, Ready(w, s), Published(s)
  PROVE  Fine(w, Apply(w, s), s)
<1> DEFINE r == Row(w, s)
           a == Act("set", w.key, w.draft)
           y == [w EXCEPT !.act = a]
           x == Cancel(y)
<1>1. \/ Apply(w, s) = Cancel(w) \/ Apply(w, s) = Repaint(w)
      \/ Apply(w, s) = x /\ HasRow(w, s) /\ Changeable(r) /\ r.key = w.key
  BY Zenon DEF Apply
<1>2. a.type = "set" /\ a.key = w.key
  BY ActIs
<1>w. IsView(w) /\ Typed(w) /\ Idle(w)
  BY DEF Ready
<1> HIDE DEF a
<1>4. Does(w, y) /\ y.act = a /\ y.page = w.page /\ y.closed = w.closed
  BY <1>w, MarkDoes DEF IsView, ViewFields
<1> HIDE DEF y
<1>5. Does(y, x) /\ x.act = y.act /\ x.page = y.page /\ x.closed = y.closed
  BY <1>4, DirtyDoes DEF Does, IsView, ViewFields, Cancel, ClearDraft, Repaint
<1> HIDE DEF x
<1>6. Does(w, x)
  BY <1>4, <1>5, DoesTwice
<1>7. HasRow(w, s) /\ Changeable(r) /\ r.key = w.key => Fine(w, x, s)
  BY <1>2, <1>4, <1>5, <1>6, SetFine
<1> HIDE DEF r
<1>8. Fine(w, Cancel(w), s) /\ Fine(w, Repaint(w), s)
  BY <1>w, CancelTame, TameFine
<1> QED BY <1>1, <1>7, <1>8

\* A choice is one of the options of its row.
LEMMA ChooseDoes ==
  ASSUME NEW w, IsView(w), Typed(w), NEW s, Published(s), HasRow(w, s),
         NEW c \in 1..Len(Row(w, s).options)
  PROVE  LET x == Choose(w, s, c) IN
         Does(w, x) /\ x.act = w.act /\ x.grid = w.grid /\ x.editing = w.editing /\ x.menu = w.menu
<1> DEFINE o == Row(w, s).options[c]
           e == o # Row(w, s).value
           x == Repaint([w EXCEPT !.choice = c, !.draft = o, !.changed = e])
<1>1. Choose(w, s, c) = x
  BY Zenon DEF Choose
<1>2. Row(w, s).options \in Seq(STRING)
  <2>1. Rows(w, s) \in Seq(SnapshotRow)
    BY RowsTyped
  <2>2. w.selected \in Nat \ {0} /\ w.selected <= Len(Rows(w, s))
    BY DEF Typed, HasRow
  <2>3. Row(w, s) \in SnapshotRow
    BY <2>1, <2>2 DEF Row
  <2> QED BY <2>3 DEF SnapshotRow
<1>3. o \in STRING /\ c \in Nat \ {0}
  BY <1>2
<1>4. o \in Words
  BY <1>3, Zenon DEF Words
<1> HIDE DEF o, e
<1>5. IsView(x) /\ x.dirty /\ x.full /\ x.choice = c /\ x.draft = o
  BY DEF IsView, Repaint, ViewFields
<1>6. /\ x.page = w.page /\ x.selected = w.selected /\ x.esc = w.esc /\ x.focus = w.focus
      /\ x.pixel = w.pixel /\ x.closed = w.closed /\ x.schema = w.schema /\ x.act = w.act
      /\ x.grid = w.grid /\ x.editing = w.editing /\ x.menu = w.menu
  BY DEF IsView, Repaint, ViewFields
<1> HIDE DEF x
<1>7. Typed(x)
  BY <1>3, <1>4, <1>5, <1>6, Zenon DEF Typed
<1>8. Does(w, x)
  BY <1>5, <1>7 DEF Does, Asked
<1> QED BY <1>1, <1>6, <1>8

LEMMA ChoiceKeyTame ==
  ASSUME NEW w, IsView(w), Typed(w), Idle(w), NEW s, Published(s), w.menu, w.editing, NEW b
  PROVE  /\ Tame(w, ChoiceKey(w, s, b))
         /\ ChoiceKey(w, s, b).grid = w.grid
         /\ ChoiceKey(w, s, b).editing => ChoiceKey(w, s, b).menu
<1> DEFINE n == Len(Row(w, s).options)
           Good(x) == Tame(w, x) /\ x.grid = w.grid /\ (x.editing => x.menu)
<1>1. Good(Cancel(w)) /\ Good(w)
  <2>1. Cancel(w).grid = w.grid /\ ~Cancel(w).editing
    BY DEF IsView, Cancel, ClearDraft, Repaint, ViewFields
  <2> QED BY <2>1, CancelTame
<1>2. ASSUME ChoiceHolds(w, s)
      PROVE  /\ HasRow(w, s) /\ n \in Nat /\ w.choice \in 1..n
  <2>1. HasRow(w, s) /\ w.choice <= n
    BY <1>2 DEF ChoiceHolds
  <2>2. Rows(w, s) \in Seq(SnapshotRow)
    BY RowsTyped
  <2>3. w.selected \in Nat \ {0} /\ w.selected <= Len(Rows(w, s))
    BY <2>1 DEF Typed, HasRow
  <2>4. Row(w, s) \in SnapshotRow
    BY <2>2, <2>3 DEF Row
  <2>5. n \in Nat
    BY <2>4 DEF SnapshotRow
  <2>6. w.choice \in Nat \ {0}
    BY DEF Typed
  <2> HIDE DEF n, Good
  <2> QED BY <2>1, <2>5, <2>6
<1>3. ASSUME ChoiceHolds(w, s), NEW c \in 1..n PROVE Good(Choose(w, s, c))
  <2> DEFINE x == Choose(w, s, c)
  <2>1. Does(w, x) /\ x.act = w.act /\ x.grid = w.grid /\ x.editing = w.editing /\ x.menu = w.menu
    BY <1>2, <1>3, ChooseDoes
  <2> HIDE DEF x
  <2>2. Good(x)
    BY <2>1 DEF Tame, Idle
  <2> HIDE DEF Good
  <2> QED BY <2>2 DEF x
<1> HIDE DEF Good
<1>4. ASSUME ChoiceHolds(w, s)
      PROVE  /\ Good(Choose(w, s, IF w.choice = 1 THEN n ELSE w.choice - 1))
             /\ Good(Choose(w, s, (w.choice % n) + 1))
             /\ Good(Choose(w, s, 1)) /\ Good(Choose(w, s, n))
             /\ NumberOf(b) <= n => Good(Choose(w, s, NumberOf(b)))
  <2>0. n \in Nat /\ w.choice \in 1..n
    BY <1>2, <1>4
  <2> HIDE DEF n
  <2>1. (IF w.choice = 1 THEN n ELSE w.choice - 1) \in 1..n /\ 1 \in 1..n /\ n \in 1..n
    BY <2>0
  <2>2. (w.choice % n) + 1 \in 1..n
    BY <2>0
  <2>3. NumberOf(b) <= n => NumberOf(b) \in 1..n
    BY <2>0 DEF NumberOf
  <2> QED BY <1>3, <1>4, <2>1, <2>2, <2>3
<1>5. Good(ChoiceKey(w, s, b))
  BY <1>1, <1>4, Zenon DEF ChoiceKey
<1> QED BY <1>5 DEF Good

\* The lines a table may have: no row of a closed section.
LineSet(w, s) ==
  {i \in [head : BOOLEAN, at : 1..Len(Rows(w, s))] : ~i.head => ~Hidden(w, s, i.at)}
LEMMA ItemsIn ==
  ASSUME NEW w, Typed(w), NEW s, Published(s)
  PROVE  SectionItems(w, s) \in Seq(LineSet(w, s))
<1> DEFINE r == Rows(w, s)
           Z == LineSet(w, s)
           head(i) == IF SectionStart(w, s, i) THEN <<[head |-> TRUE, at |-> i]>> ELSE <<>>
           row(i) == IF Hidden(w, s, i) THEN <<>> ELSE <<[head |-> FALSE, at |-> i]>>
           f == [i \in DOMAIN r |-> head(i) \o row(i)]
<1>1. SectionItems(w, s) = FlattenSeq(f)
  BY Zenon DEF SectionItems
<1>2. DOMAIN r = 1..Len(r) /\ Len(r) \in Nat
  <2>1. r \in Seq(SnapshotRow)
    BY RowsTyped
  <2> HIDE DEF r
  <2> QED BY <2>1
<1>3. ASSUME NEW i \in 1..Len(r) PROVE head(i) \o row(i) \in Seq(Z)
  <2> DEFINE a == [head |-> TRUE, at |-> i]
             b == [head |-> FALSE, at |-> i]
  <2>1. a \in Z
    BY DEF LineSet
  <2>2. ~Hidden(w, s, i) => b \in Z
    BY DEF LineSet
  <2> HIDE DEF a, b, Z
  <2>3. head(i) \in Seq(Z)
    <3>1. <<a>> \in Seq(Z) /\ <<>> \in Seq(Z)
      BY <2>1
    <3> QED BY <3>1 DEF a
  <2>4. row(i) \in Seq(Z)
    <3>1. <<>> \in Seq(Z) /\ (~Hidden(w, s, i) => <<b>> \in Seq(Z))
      BY <2>2
    <3> QED BY <3>1 DEF b
  <2> HIDE DEF head, row
  <2>5. \A x, y \in Seq(Z) : x \o y \in Seq(Z)
    OBVIOUS
  <2> QED BY <2>3, <2>4, <2>5
<1> HIDE DEF head, row, r, Z
<1>4. f \in Seq(Seq(Z)) /\ Len(f) = Len(r)
  BY <1>2, <1>3
<1> HIDE DEF f
<1>5. FlattenSeq(f) \in Seq(Z)
  BY <1>2, <1>4, FlatIn
<1> QED BY <1>1, <1>5 DEF Z

\* The line the view is on, or the first.
LEMMA FocusIn ==
  ASSUME NEW w, NEW s, NEW Z, SectionItems(w, s) \in Seq(Z), SectionItems(w, s) # <<>>
  PROVE  Focus(w, s) \in 1..Len(SectionItems(w, s))
<1> DEFINE items == SectionItems(w, s)
           n == Len(items)
           I == {i \in 1..n : items[i] = [head |-> w.section, at |-> w.selected]}
           r == IF I # {} THEN Max(I) ELSE 0
<1>1. n \in Nat /\ n >= 1
  <2>1. items \in Seq(Z) /\ items # <<>>
    OBVIOUS
  <2> HIDE DEF items
  <2> QED BY <2>1
<1>2. Focus(w, s) = Max({1, r})
  BY Zenon DEF Focus, SelectLastInSeq
<1>3. r \in 0..n
  <2>1. CASE I # {}
    <3>1. I \in SUBSET (0..n)
      BY <1>1
    <3> HIDE DEF I, n
    <3>2. \E x \in I : \A y \in I : x >= y
      BY <1>1, <2>1, <3>1, GreatestIn
    <3>3. Max(I) \in I
      BY <3>2, Zenon DEF Max
    <3> QED BY <2>1, <3>1, <3>3
  <2>2. CASE I = {}
    <3> HIDE DEF I, n
    <3> QED BY <1>1, <2>2
  <2> QED BY <2>1, <2>2
<1> HIDE DEF r, n
<1>4. Max({1, r}) = IF 1 >= r THEN 1 ELSE r
  BY <1>1, <1>3, MaxOfTwo
<1>5. Max({1, r}) \in 1..n
  BY <1>1, <1>3, <1>4
<1> QED BY <1>2, <1>5 DEF n

\* The view goes to a line of the table.
LEMMA GoToTame ==
  ASSUME NEW w, IsView(w), Typed(w), Idle(w), NEW n \in Nat, NEW a \in 1..n, NEW h
  PROVE  LET x == Dirty([w EXCEPT !.selected = a, !.section = h]) IN
         Tame(w, x) /\ x.grid = w.grid /\ x.editing = w.editing /\ x.menu = w.menu
<1> DEFINE x == Dirty([w EXCEPT !.selected = a, !.section = h])
<1>1. IsView(x) /\ x.dirty /\ x.selected = a
  BY DEF IsView, Dirty, ViewFields
<1>2. /\ x.page = w.page /\ x.esc = w.esc /\ x.focus = w.focus /\ x.draft = w.draft /\ x.choice = w.choice
      /\ x.pixel = w.pixel /\ x.closed = w.closed /\ x.schema = w.schema /\ x.act = w.act
      /\ x.grid = w.grid /\ x.editing = w.editing /\ x.menu = w.menu /\ x.full = w.full
  BY DEF IsView, Dirty, ViewFields
<1> HIDE DEF x
<1>3. a \in Nat \ {0}
  OBVIOUS
<1>4. Typed(x)
  BY <1>1, <1>2, <1>3, Zenon DEF Typed
<1>5. Tame(w, x)
  BY <1>1, <1>2, <1>4 DEF Tame, Does, Asked, Idle
<1> QED BY <1>2, <1>5 DEF x

LEMMA MoveItemTame ==
  ASSUME NEW w, IsView(w), Typed(w), Idle(w), NEW s, Published(s), NEW k \in {"A", "B", "H", "F"}
  PROVE  LET x == MoveItem(w, s, k) IN
         Tame(w, x) /\ x.grid = w.grid /\ x.editing = w.editing /\ x.menu = w.menu
<1> DEFINE items == SectionItems(w, s)
           f == Focus(w, s)
           n == Len(items)
           up == Max({1, f - 1})
           down == Min({n, f + 1})
           to == CASE k = "A" -> up [] k = "B" -> down [] k = "H" -> 1 [] k = "F" -> n
           y == Dirty([w EXCEPT !.selected = items[to].at, !.section = items[to].head])
<1>1. MoveItem(w, s, k) = IF items = <<>> THEN w ELSE y
  BY Zenon DEF MoveItem, GoTo
<1>2. items \in Seq(LineSet(w, s))
  BY ItemsIn
<1>3. CASE items = <<>>
  <2>1. MoveItem(w, s, k) = w
    BY <1>1, <1>3
  <2> QED BY <2>1, CancelTame
<1>4. CASE items # <<>>
  <2>1. f \in 1..n /\ n \in Nat
    BY <1>2, <1>4, FocusIn
  <2> HIDE DEF f, n
  <2>2. up = IF 1 >= f - 1 THEN 1 ELSE f - 1
    BY <2>1, MaxOfTwo
  <2>3. down = IF n <= f + 1 THEN n ELSE f + 1
    BY <2>1, MinOfTwo
  <2>4. up \in 1..n /\ down \in 1..n /\ 1 \in 1..n /\ n \in 1..n
    BY <2>1, <2>2, <2>3
  <2> HIDE DEF up, down
  <2>5. to \in 1..n
    BY <2>4
  <2> HIDE DEF to
  <2>6. items[to] \in LineSet(w, s)
    <3> HIDE DEF items
    <3> QED BY <1>2, <2>5 DEF n
  <2> DEFINE a == items[to].at
             h == items[to].head
  <2>7. a \in 1..Len(Rows(w, s))
    <3> HIDE DEF items
    <3> QED BY <2>6 DEF LineSet
  <2>8. Len(Rows(w, s)) \in Nat
    BY RowsTyped
  <2>9. MoveItem(w, s, k) = Dirty([w EXCEPT !.selected = a, !.section = h])
    BY <1>1, <1>4
  <2> HIDE DEF a, h
  <2>10. LET x == Dirty([w EXCEPT !.selected = a, !.section = h]) IN
         Tame(w, x) /\ x.grid = w.grid /\ x.editing = w.editing /\ x.menu = w.menu
    BY <2>7, <2>8, GoToTame, Zenon
  <2> QED BY <2>9, <2>10, Zenon
<1> QED BY <1>3, <1>4

\* A draft opens on a row as it is.
LEMMA RowTyped ==
  ASSUME NEW w, Typed(w), NEW s, Published(s), HasRow(w, s)
  PROVE  Row(w, s) \in SnapshotRow
<1>1. Rows(w, s) \in Seq(SnapshotRow)
  BY RowsTyped
<1>2. w.selected \in Nat \ {0} /\ w.selected <= Len(Rows(w, s))
  BY DEF Typed, HasRow
<1> QED BY <1>1, <1>2 DEF Row

LEMMA OpenTame ==
  ASSUME NEW w, IsView(w), Typed(w), Idle(w), NEW s, Published(s), NEW dialog
  PROVE  Tame(w, Open(w, s, dialog))
<1> DEFINE r == Row(w, s)
           listed == r.kind = "choice" /\ ~r.secret /\ r.options # <<>>
           both == listed \/ dialog
           at == SelectInSeq(r.options, LAMBDA o : o = r.value)
           d == IF r.secret THEN "" ELSE r.value
           c == IF listed /\ at > 0 THEN at ELSE 1
           x == Repaint([w EXCEPT !.key = r.key, !.secret = r.secret, !.observed = RowHash(r),
                    !.draft = d, !.editing = TRUE, !.changed = FALSE, !.menu = listed, !.dialog = both,
                    !.choice = c])
<1>1. Open(w, s, dialog) = IF ~HasRow(w, s) THEN Dirty(w) ELSE IF ~Changeable(r) THEN Dirty(w) ELSE x
  BY Zenon DEF Open
<1>2. ASSUME HasRow(w, s) PROVE Tame(w, x)
  <2>1. r \in SnapshotRow
    BY <1>2, RowTyped
  <2>2. r.value \in STRING /\ r.options \in Seq(STRING)
    <3> HIDE DEF r
    <3> QED BY <2>1 DEF SnapshotRow
  <2>3. d # "" => d \in Words
    <3>1. r.value \in Words
      BY <2>2, Zenon DEF Words
    <3> HIDE DEF r
    <3> QED BY <3>1
  <2> DEFINE I == {i \in 1..Len(r.options) : r.options[i] = r.value}
  <2>4. at = IF I # {} THEN Min(I) ELSE 0
    BY Zenon DEF SelectInSeq
  <2>5. at \in Nat
    <3>1. I \in SUBSET Nat
      OBVIOUS
    <3> HIDE DEF I, at
    <3>2. I # {} => Min(I) \in I
      BY <3>1, LeastOf
    <3> QED BY <2>4, <3>1, <3>2
  <2>6. c \in Nat \ {0}
    <3> HIDE DEF at, listed
    <3> QED BY <2>5
  <2> DEFINE key == r.key
             secret == r.secret
             hash == RowHash(r)
             y == Repaint([w EXCEPT !.key = key, !.secret = secret, !.observed = hash,
                    !.draft = d, !.editing = TRUE, !.changed = FALSE, !.menu = listed, !.dialog = both,
                    !.choice = c])
  <2>7. x = y
    OBVIOUS
  <2> HIDE DEF key, secret, hash, d, listed, both, c, x
  <2>8. IsView(y) /\ y.dirty /\ y.full
    BY DEF IsView, Repaint, ViewFields
  <2>9. y.draft = d /\ y.choice = c
    BY DEF IsView, Repaint, ViewFields
  <2>10. /\ y.page = w.page /\ y.selected = w.selected /\ y.esc = w.esc /\ y.focus = w.focus
         /\ y.pixel = w.pixel /\ y.closed = w.closed /\ y.schema = w.schema /\ y.act = w.act
    BY DEF IsView, Repaint, ViewFields
  <2> HIDE DEF y
  <2>11. Typed(y)
    BY <2>3, <2>6, <2>9, <2>10, Zenon DEF Typed
  <2>12. Tame(w, y)
    BY <2>8, <2>10, <2>11 DEF Tame, Does, Asked, Idle
  <2> QED BY <2>7, <2>12
<1>3. Tame(w, Dirty(w))
  BY CancelTame
<1> HIDE DEF x
<1> QED BY <1>1, <1>2, <1>3

LEMMA SyncPixelAlike ==
  ASSUME NEW w, IsView(w), NEW s
  PROVE  Alike(w, SyncPixel(w, s)) /\ SyncPixel(w, s).grid = w.grid
<1>1. ASSUME NEW q PROVE Alike(w, [w EXCEPT !.pixel = q]) /\ [w EXCEPT !.pixel = q].grid = w.grid
  BY DEF Alike, IsView, ViewFields
<1> QED BY <1>1, Zenon DEF SyncPixel

\* Marks that do not move the view leave it in line with the snapshot.
LEMMA MarkReady ==
  ASSUME NEW w, NEW s, Ready(w, s)
  PROVE  /\ \A a : Ready([w EXCEPT !.cr = a], s) /\ Tame(w, [w EXCEPT !.cr = a])
         /\ \A a : Ready([w EXCEPT !.drag = a], s) /\ Tame(w, [w EXCEPT !.drag = a])
         /\ \A a \in 0..2 : Ready([w EXCEPT !.esc = a], s) /\ Tame(w, [w EXCEPT !.esc = a])
         /\ \A a \in {"draft", "apply", "cancel"} :
              Ready([w EXCEPT !.focus = a], s) /\ Tame(w, [w EXCEPT !.focus = a])
<1>w. IsView(w) /\ Typed(w) /\ Idle(w)
  BY DEF Ready
<1>0. ASSUME NEW x, Does(w, x), Alike(w, x), x.act = w.act PROVE Ready(x, s) /\ Tame(w, x)
  <2>1. Idle(x)
    BY <1>0, <1>w DEF Idle
  <2> QED BY <1>0, <2>1, ReadySame DEF Tame
<1>1. ASSUME NEW a PROVE Ready([w EXCEPT !.cr = a], s) /\ Tame(w, [w EXCEPT !.cr = a])
  <2> DEFINE x == [w EXCEPT !.cr = a]
  <2>1. Does(w, x)
    BY <1>w, MarkDoes
  <2>2. Alike(w, x) /\ x.act = w.act
    BY <1>w DEF Alike, IsView, ViewFields
  <2> HIDE DEF x
  <2>3. Ready(x, s) /\ Tame(w, x)
    BY <2>1, <2>2, <1>0
  <2> QED BY <2>3 DEF x
<1>2. ASSUME NEW a PROVE Ready([w EXCEPT !.drag = a], s) /\ Tame(w, [w EXCEPT !.drag = a])
  <2> DEFINE x == [w EXCEPT !.drag = a]
  <2>1. Does(w, x)
    BY <1>w, MarkDoes
  <2>2. Alike(w, x) /\ x.act = w.act
    BY <1>w DEF Alike, IsView, ViewFields
  <2> HIDE DEF x
  <2>3. Ready(x, s) /\ Tame(w, x)
    BY <2>1, <2>2, <1>0
  <2> QED BY <2>3 DEF x
<1>3. ASSUME NEW a \in 0..2 PROVE Ready([w EXCEPT !.esc = a], s) /\ Tame(w, [w EXCEPT !.esc = a])
  <2> DEFINE x == [w EXCEPT !.esc = a]
  <2>1. Does(w, x)
    BY <1>w, MarkDoes
  <2>2. Alike(w, x) /\ x.act = w.act
    BY <1>w DEF Alike, IsView, ViewFields
  <2> HIDE DEF x
  <2>3. Ready(x, s) /\ Tame(w, x)
    BY <2>1, <2>2, <1>0
  <2> QED BY <2>3 DEF x
<1>4. ASSUME NEW a \in {"draft", "apply", "cancel"}
      PROVE  Ready([w EXCEPT !.focus = a], s) /\ Tame(w, [w EXCEPT !.focus = a])
  <2> DEFINE x == [w EXCEPT !.focus = a]
  <2>1. Does(w, x)
    BY <1>w, MarkDoes
  <2>2. Alike(w, x) /\ x.act = w.act
    BY <1>w DEF Alike, IsView, ViewFields
  <2> HIDE DEF x
  <2>3. Ready(x, s) /\ Tame(w, x)
    BY <2>1, <2>2, <1>0
  <2> QED BY <2>3 DEF x
<1> QED BY <1>1, <1>2, <1>3, <1>4

LEMMA GridDoes ==
  ASSUME NEW w, IsView(w), Typed(w), NEW g
  PROVE  /\ Does(w, Dirty([w EXCEPT !.grid = g])) /\ Dirty([w EXCEPT !.grid = g]).act = w.act
         /\ Does(w, Repaint([w EXCEPT !.grid = g])) /\ Repaint([w EXCEPT !.grid = g]).act = w.act
<1>1. Does(w, Dirty([w EXCEPT !.grid = g])) /\ Dirty([w EXCEPT !.grid = g]).act = w.act
  <2> DEFINE x == Dirty([w EXCEPT !.grid = g])
  <2>1. IsView(x) /\ Typed(x)
    BY DEF Typed, IsView, Dirty, ViewFields
  <2>2. x.dirty /\ x.full = w.full /\ x.page = w.page /\ x.schema = w.schema /\ x.editing = w.editing /\ x.act = w.act
    BY DEF IsView, Dirty, ViewFields
  <2> HIDE DEF x
  <2>3. Does(w, x)
    BY <2>1, <2>2 DEF Does, Asked
  <2> QED BY <2>2, <2>3 DEF x
<1>2. Does(w, Repaint([w EXCEPT !.grid = g])) /\ Repaint([w EXCEPT !.grid = g]).act = w.act
  <2> DEFINE x == Repaint([w EXCEPT !.grid = g])
  <2>1. IsView(x) /\ Typed(x)
    BY DEF Typed, IsView, Repaint, ViewFields
  <2>2. x.dirty /\ x.full /\ x.act = w.act
    BY DEF IsView, Repaint, ViewFields
  <2> HIDE DEF x
  <2>3. Does(w, x)
    BY <2>1, <2>2 DEF Does, Asked
  <2> QED BY <2>2, <2>3 DEF x
<1> QED BY <1>1, <1>2

LEMMA ToggleTame ==
  ASSUME NEW w, NEW s, Ready(w, s), Published(s), NEW how
  PROVE  Tame(w, ToggleSection(w, s, how))
<1>1. Does(w, ToggleSection(w, s, how)) /\ ToggleSection(w, s, how).act = w.act
  BY ToggleDoes DEF Ready
<1> QED BY <1>1 DEF Ready, Tame, Idle

LEMMA NextPageTame ==
  ASSUME NEW w, NEW s, Ready(w, s), NEW d \in {-1, 1}
  PROVE  Tame(w, NextPage(w, s, d))
<1>1. Does(w, NextPage(w, s, d)) /\ NextPage(w, s, d).act = w.act
  BY NextPageDoes DEF Ready
<1> QED BY <1>1 DEF Ready, Tame, Idle

LEMMA SyncPixelReady ==
  ASSUME NEW w, NEW s, Ready(w, s), Published(s), s.groups # <<>>
  PROVE  /\ Does(w, SyncPixel(w, s)) /\ Ready(SyncPixel(w, s), s)
         /\ SyncPixel(w, s).page = w.page /\ SyncPixel(w, s).grid = w.grid
<1> DEFINE x == SyncPixel(w, s)
<1>1. Does(w, x) /\ x.act = w.act
  BY SyncPixelDoes DEF Ready
<1>2. Alike(w, x) /\ x.grid = w.grid
  BY SyncPixelAlike DEF Ready
<1> HIDE DEF x
<1>3. Idle(x)
  BY <1>1 DEF Ready, Idle
<1>4. Ready(x, s)
  BY <1>1, <1>2, <1>3, ReadySame
<1> QED BY <1>1, <1>2, <1>4 DEF x, Alike

LEMMA EnterFine ==
  ASSUME NEW w, NEW s, Ready(w, s), Published(s), NEW dialog
  PROVE  Fine(w, Enter(w, s, dialog), s)
<1> DEFINE x == IF w.page = "pixel" THEN SyncPixel(w, s) ELSE w
           away == ~Available(w.page, s) /\ w.page \in {"led", "pixel"}
<1>1. Fine(w, ToggleSection(w, s, "flip"), s) /\ Fine(w, w, s)
  BY ToggleTame, ReadyFine, TameFine
<1>2. ASSUME ~away
      PROVE  /\ Fine(w, Open(x, s, dialog), s)
             /\ Fine(w, Dirty([x EXCEPT !.grid = FALSE]), s)
             /\ x.page = "pixel" => Fine(w, PixelAction(x, s), s)
  <2>1. w.page = "pixel" => s.groups # <<>>
    BY <1>2 DEF Available
  <2>2. Does(w, x) /\ Ready(x, s) /\ x.page = w.page
    BY <2>1, SyncPixelReady, ReadyFine DEF Fine
  <2> HIDE DEF x
  <2>3. IsView(x) /\ Typed(x) /\ Idle(x)
    BY <2>2 DEF Ready
  <2>4. Fine(x, Open(x, s, dialog), s)
    BY <2>3, OpenTame, TameFine
  <2>5. Fine(x, Dirty([x EXCEPT !.grid = FALSE]), s)
    <3> DEFINE y == Dirty([x EXCEPT !.grid = FALSE])
    <3>1. Does(x, y) /\ y.act = x.act
      BY <2>3, GridDoes
    <3> HIDE DEF y
    <3>2. Tame(x, y)
      BY <2>3, <3>1 DEF Tame, Idle
    <3> QED BY <3>2, TameFine DEF y
  <2>6. x.page = "pixel" => Fine(x, PixelAction(x, s), s)
    BY <2>1, <2>2, <2>3, PixelActionFine
  <2> QED BY <2>2, <2>4, <2>5, <2>6, FineAfter
<1>3. Enter(w, s, dialog) =
        IF w.section /\ ~w.grid THEN ToggleSection(w, s, "flip")
        ELSE IF away THEN w
        ELSE CASE x.grid /\ x.page = "pixel" -> PixelAction(x, s)
               [] x.grid /\ x.page \in {"led", "game"} -> Dirty([x EXCEPT !.grid = FALSE])
               [] OTHER -> Open(x, s, dialog)
  BY Zenon DEF Enter
<1> HIDE DEF x, away
<1> QED BY <1>1, <1>2, <1>3, Zenon

LEMMA StartDialogFine ==
  ASSUME NEW w, NEW s, Ready(w, s), Published(s)
  PROVE  Fine(w, StartDialog(w, s), s)
<1> DEFINE x == [w EXCEPT !.cr = FALSE]
<1>1. Ready(x, s) /\ Tame(w, x)
  BY MarkReady
<1> HIDE DEF x
<1>2. Fine(w, Enter(x, s, TRUE), s)
  BY <1>1, EnterFine, FineAfter DEF Tame
<1>3. Fine(w, w, s)
  BY ReadyFine
<1> QED BY <1>2, <1>3, Zenon DEF StartDialog, x

\* What the keys of the grid pages ask for.
LEMMA AsksFine ==
  ASSUME NEW w, NEW s, Ready(w, s), NEW a,
         a.type \in {"refresh", "exit"} \/ (a.type = "cell" /\ s.leds)
         \/ (a.type = "reset" /\ s.game /\ s.ready)
         \/ (a.type = "press" /\ s.game /\ s.ready /\ a.box \in s.enabled)
  PROVE  Fine(w, [w EXCEPT !.act = a], s)
<1> DEFINE x == [w EXCEPT !.act = a]
<1>1. Does(w, x) /\ x.act = a
  BY MarkDoes DEF Ready, IsView, ViewFields
<1> HIDE DEF x
<1>2. Allowed(x, s)
  BY <1>1 DEF Allowed
<1> QED BY <1>1, <1>2 DEF Fine, x

LEMMA KeyFine ==
  ASSUME NEW w, NEW s, Ready(w, s), Published(s), NEW b
  PROVE  Fine(w, Key(w, s, b), s)
<1> DEFINE x == IF w.page = "pixel" /\ Available("pixel", s) THEN SyncPixel(w, s) ELSE w
           away == w.page \in {"led", "pixel"} /\ ~Available(w.page, s)
<1>1. Does(w, x) /\ Ready(x, s) /\ x.page = w.page /\ x.grid = w.grid
  <2>1. Available("pixel", s) => s.groups # <<>>
    BY DEF Available
  <2> QED BY <2>1, SyncPixelReady, ReadyFine DEF Fine
<1>2. ~away => (x.page = "led" => s.leds) /\ (x.page = "pixel" => s.groups # <<>>)
  BY <1>1 DEF Available
<1>3. Key(w, s, b) =
        IF b = "tab" THEN NextPage(w, s, 1)
        ELSE IF b = "ctrlR" THEN [w EXCEPT !.act = [type |-> "refresh"]]
        ELSE IF w.page = "game" /\ w.grid /\ b \in NumberKeys \union {"r"} THEN GameKey(w, s, b)
        ELSE IF away THEN w
        ELSE IF b = "f" /\ x.page \in GridPages THEN Repaint([x EXCEPT !.grid = ~x.grid])
        ELSE IF x.page = "led" /\ x.grid /\ b \in {"r", "w"} THEN [x EXCEPT !.act = [type |-> "cell"]]
        ELSE IF x.page = "pixel" /\ b = "g" THEN Dirty(SyncPixel([x EXCEPT !.group = ~x.group], s))
        ELSE IF x.page = "pixel" /\ b \in {"r", "w"} THEN Dirty(x)
        ELSE IF x.page = "pixel" /\ x.grid /\ b = "plus" THEN StepPixel(x, s, 1)
        ELSE IF x.page = "pixel" /\ x.grid /\ b = "minus" THEN StepPixel(x, s, -1)
        ELSE IF b \in {"cr", "lf"} THEN Enter([x EXCEPT !.cr = b = "cr"], s, FALSE)
        ELSE x
  BY Zenon DEF Key
<1> HIDE DEF x
<1>4. /\ Fine(w, NextPage(w, s, 1), s) /\ Fine(w, w, s) /\ Fine(w, x, s)
      /\ Fine(w, Dirty(w), s) /\ Fine(w, Dirty(x), s)
  <2>1. Fine(w, NextPage(w, s, 1), s) /\ Fine(w, w, s)
    BY NextPageTame, ReadyFine, TameFine
  <2>2. Fine(w, Dirty(w), s) /\ Fine(x, Dirty(x), s) /\ Fine(x, x, s)
    BY <1>1, ReadyFine, CancelTame, TameFine DEF Ready
  <2> QED BY <1>1, <2>1, <2>2, FineAfter
<1>5. Fine(w, [w EXCEPT !.act = [type |-> "refresh"]], s)
  <2> DEFINE a == [type |-> "refresh"]
  <2>1. a.type = "refresh"
    OBVIOUS
  <2> HIDE DEF a
  <2>2. Fine(w, [w EXCEPT !.act = a], s)
    BY <2>1, AsksFine
  <2> QED BY <2>2 DEF a
<1>6. Fine(w, GameKey(w, s, b), s)
  <2> DEFINE k == NumberOf(b)
             p == [type |-> "press", box |-> k]
             c == [type |-> "reset"]
  <2>1. p.type = "press" /\ p.box = k /\ c.type = "reset"
    OBVIOUS
  <2>2. GameKey(w, s, b) = IF ~s.game \/ ~s.ready \/ (b # "r" /\ k \notin s.enabled) THEN Dirty(w)
                           ELSE [w EXCEPT !.act = IF b = "r" THEN c ELSE p]
    BY Zenon DEF GameKey
  <2> HIDE DEF p, c, k
  <2>3. ASSUME s.game, s.ready, k \in s.enabled PROVE Fine(w, [w EXCEPT !.act = p], s)
    BY <2>1, <2>3, AsksFine
  <2>4. ASSUME s.game, s.ready PROVE Fine(w, [w EXCEPT !.act = c], s)
    BY <2>1, <2>4, AsksFine
  <2> QED BY <1>4, <2>2, <2>3, <2>4, Zenon
<1>7. ~away /\ x.page = "led" => Fine(w, [x EXCEPT !.act = [type |-> "cell"]], s)
  <2> DEFINE a == [type |-> "cell"]
  <2>1. a.type = "cell"
    OBVIOUS
  <2> HIDE DEF a, away
  <2>2. s.leds => Fine(x, [x EXCEPT !.act = a], s)
    BY <1>1, <2>1, AsksFine
  <2>3. s.leds => Fine(w, [x EXCEPT !.act = a], s)
    <3> DEFINE y == [x EXCEPT !.act = a]
    <3> HIDE DEF y
    <3>1. s.leds => Fine(x, y, s)
      BY <2>2 DEF y
    <3>2. s.leds => Fine(w, y, s)
      BY <1>1, <3>1, FineAfter
    <3> QED BY <3>2 DEF y
  <2> QED BY <1>2, <2>3 DEF a
<1>8. Fine(w, Repaint([x EXCEPT !.grid = ~x.grid]), s)
  <2> DEFINE g == ~x.grid
             y == Repaint([x EXCEPT !.grid = g])
  <2> HIDE DEF g
  <2>1. Does(x, y) /\ y.act = x.act
    BY <1>1, GridDoes DEF Ready
  <2> HIDE DEF y
  <2>2. Tame(x, y)
    BY <1>1, <2>1 DEF Tame, Idle, Ready
  <2>3. Fine(w, y, s)
    BY <1>1, <2>2, TameFine, FineAfter
  <2> QED BY <2>3 DEF y, g
<1>9. ~away /\ x.page = "pixel" => Fine(w, Dirty(SyncPixel([x EXCEPT !.group = ~x.group], s)), s)
  <2> DEFINE g == ~x.group
             y == [x EXCEPT !.group = g]
             z == SyncPixel(y, s)
  <2> HIDE DEF g, away
  <2>0. SUFFICES ASSUME s.groups # <<>> PROVE Fine(w, Dirty(z), s)
    BY <1>2, Zenon DEF g
  <2>1. Does(x, y) /\ y.act = x.act
    BY <1>1, MarkDoes DEF Ready, IsView, ViewFields
  <2> HIDE DEF y
  <2>2. Does(y, z) /\ z.act = y.act
    BY <2>0, <2>1, SyncPixelDoes DEF Does
  <2> HIDE DEF z
  <2>3. Does(w, z) /\ IsView(z) /\ Typed(z) /\ Idle(z)
    BY <1>1, <2>1, <2>2, DoesTwice DEF Does, Ready, Idle
  <2>4. Fine(z, Dirty(z), s)
    BY <2>3, CancelTame, TameFine
  <2> QED BY <2>3, <2>4, FineAfter
<1>10. ~away /\ x.page = "pixel" => Fine(w, StepPixel(x, s, 1), s) /\ Fine(w, StepPixel(x, s, -1), s)
  <2> HIDE DEF away
  <2>1. s.groups # <<>> => Fine(x, StepPixel(x, s, 1), s) /\ Fine(x, StepPixel(x, s, -1), s)
    BY <1>1, StepPixelFine DEF Ready
  <2>2. s.groups # <<>> => Fine(w, StepPixel(x, s, 1), s) /\ Fine(w, StepPixel(x, s, -1), s)
    BY <1>1, <2>1, FineAfter
  <2> QED BY <1>2, <2>2
<1>11. Fine(w, Enter([x EXCEPT !.cr = b = "cr"], s, FALSE), s)
  <2> DEFINE c == b = "cr"
             y == [x EXCEPT !.cr = c]
  <2> HIDE DEF c
  <2>1. Ready(y, s) /\ Tame(x, y)
    BY <1>1, MarkReady
  <2> HIDE DEF y
  <2>2. Does(w, y)
    BY <1>1, <2>1, DoesTwice DEF Tame
  <2>3. Fine(w, Enter(y, s, FALSE), s)
    BY <2>1, <2>2, EnterFine, FineAfter
  <2> QED BY <2>3 DEF y, c
<1> HIDE DEF away
<1> QED BY <1>3, <1>4, <1>5, <1>6, <1>7, <1>8, <1>9, <1>10, <1>11, Zenon

LEMMA EditFine ==
  ASSUME NEW w, NEW s, Ready(w, s), Published(s), w.editing, NEW b, NEW d \in Drafts
  PROVE  Fine(w, Edit(w, s, b, d), s)
<1>w. IsView(w) /\ Typed(w) /\ Idle(w)
  BY DEF Ready
<1>1. w.menu => Fine(w, ChoiceKey(w, s, b), s)
  BY <1>w, ChoiceKeyTame, TameFine
<1>2. ASSUME NEW f \in {"draft", "apply", "cancel"} PROVE Fine(w, Repaint([w EXCEPT !.focus = f]), s)
  <2> DEFINE y == [w EXCEPT !.focus = f]
  <2>1. Ready(y, s) /\ Tame(w, y)
    BY MarkReady
  <2> HIDE DEF y
  <2>2. Fine(y, Repaint(y), s)
    BY <2>1, CancelTame, TameFine DEF Ready
  <2>3. Fine(w, Repaint(y), s)
    BY <2>1, <2>2, FineAfter DEF Tame
  <2> QED BY <2>3 DEF y
<1>3. Fine(w, Repaint([w EXCEPT !.focus = CASE w.focus = "draft" -> "apply" [] w.focus = "apply" -> "cancel"
                                     [] OTHER -> "draft"]), s)
  <2> DEFINE f == CASE w.focus = "draft" -> "apply" [] w.focus = "apply" -> "cancel" [] OTHER -> "draft"
  <2>1. f \in {"draft", "apply", "cancel"}
    OBVIOUS
  <2> HIDE DEF f
  <2>2. Fine(w, Repaint([w EXCEPT !.focus = f]), s)
    BY <1>2, <2>1
  <2> QED BY <2>2 DEF f
<1>4. Fine(w, Cancel(w), s) /\ Fine(w, w, s)
  BY <1>w, CancelTame, TameFine
<1>5. Fine(w, Apply([w EXCEPT !.cr = b = "cr"], s), s)
  <2> DEFINE c == b = "cr"
             y == [w EXCEPT !.cr = c]
  <2> HIDE DEF c
  <2>1. Ready(y, s) /\ Tame(w, y)
    BY MarkReady
  <2> HIDE DEF y
  <2>2. Fine(w, Apply(y, s), s)
    BY <2>1, ApplyFine, FineAfter DEF Tame
  <2> QED BY <2>2 DEF y, c
<1>6. Fine(w, Dirty([w EXCEPT !.draft = d, !.changed = TRUE]), s)
  <2> DEFINE x == Dirty([w EXCEPT !.draft = d, !.changed = TRUE])
  <2>0. d \in Words
    BY Zenon DEF Words
  <2>1. IsView(x) /\ x.dirty /\ x.draft = d
    BY <1>w DEF IsView, Dirty, ViewFields
  <2>2. /\ x.page = w.page /\ x.selected = w.selected /\ x.esc = w.esc /\ x.focus = w.focus
        /\ x.pixel = w.pixel /\ x.closed = w.closed /\ x.schema = w.schema /\ x.act = w.act
        /\ x.choice = w.choice /\ x.full = w.full /\ x.editing = w.editing
    BY <1>w DEF IsView, Dirty, ViewFields
  <2> HIDE DEF x
  <2>3. Typed(x)
    BY <1>w, <2>0, <2>1, <2>2, Zenon DEF Typed
  <2>4. Tame(w, x)
    BY <1>w, <2>1, <2>2, <2>3 DEF Tame, Does, Asked, Idle
  <2> QED BY <2>4, TameFine DEF x
<1> QED BY <1>1, <1>3, <1>4, <1>5, <1>6, Zenon DEF Edit

\* The rows of a grid page that has no grid to move in.
LEMMA MovesTame ==
  ASSUME NEW w, IsView(w), Typed(w), Idle(w), NEW a \in Nat \ {0}
  PROVE  Tame(w, Dirty([w EXCEPT !.selected = a]))
<1> DEFINE x == Dirty([w EXCEPT !.selected = a])
<1>1. IsView(x) /\ x.dirty /\ x.selected = a
  BY DEF IsView, Dirty, ViewFields
<1>2. /\ x.page = w.page /\ x.esc = w.esc /\ x.focus = w.focus /\ x.draft = w.draft /\ x.choice = w.choice
      /\ x.pixel = w.pixel /\ x.closed = w.closed /\ x.schema = w.schema /\ x.act = w.act
      /\ x.editing = w.editing /\ x.full = w.full
  BY DEF IsView, Dirty, ViewFields
<1> HIDE DEF x
<1>3. Typed(x)
  BY <1>1, <1>2, Zenon DEF Typed
<1>4. Tame(w, x)
  BY <1>1, <1>2, <1>3 DEF Tame, Does, Asked, Idle
<1> QED BY <1>4 DEF x

ArrowKeys == {"A", "B", "C", "D", "H", "F"}
LEMMA ArrowFine ==
  ASSUME NEW w, NEW s, Ready(w, s), Published(s), NEW k, w.editing \/ k \in ArrowKeys
  PROVE  Fine(w, Arrow(w, s, k), s)
<1> DEFINE sideways == k \in {"C", "D"}
           n == Len(Rows(w, s))
           to == CASE k = "A" -> Max({1, w.selected - 1})
                   [] k = "B" -> IF w.selected < n THEN w.selected + 1 ELSE w.selected
                   [] k = "H" -> 1 [] k = "F" -> Max({1, n})
           how == IF k = "C" THEN "open" ELSE "close"
           key == IF k = "C" THEN "plus" ELSE "minus"
           d == IF k = "C" THEN 1 ELSE -1
<1>w. IsView(w) /\ Typed(w) /\ Idle(w)
  BY DEF Ready
<1>1. Fine(w, Dirty(w), s)
  BY <1>w, CancelTame, TameFine
<1>2. w.editing /\ w.menu => Fine(w, ChoiceKey(w, s, k), s)
  BY <1>w, ChoiceKeyTame, TameFine
<1>3. s.groups # <<>> =>
        Fine(w, StepPixel(w, s, -1), s) /\ Fine(w, StepPixel(w, s, 1), s) /\ Fine(w, JumpPixel(w, s, k), s)
  BY <1>w, StepPixelFine, JumpPixelFine
<1>4. /\ Fine(w, ToggleSection(w, s, how), s)
      /\ Fine(w, Adjust(w, s, key), s)
      /\ Fine(w, NextPage(w, s, d), s)
  BY ToggleTame, AdjustFine, NextPageTame, TameFine
<1>5. ~w.editing /\ ~sideways => Fine(w, MoveItem(w, s, k), s)
  <2>1. ~w.editing /\ ~sideways => k \in {"A", "B", "H", "F"}
    BY DEF ArrowKeys
  <2>2. k \in {"A", "B", "H", "F"} => Tame(w, MoveItem(w, s, k))
    BY <1>w, MoveItemTame, Zenon
  <2> QED BY <2>1, <2>2, TameFine
<1>6. ~w.editing /\ ~sideways => Fine(w, Dirty([w EXCEPT !.selected = to]), s)
  <2> SUFFICES ASSUME ~w.editing, ~sideways PROVE Fine(w, Dirty([w EXCEPT !.selected = to]), s)
    OBVIOUS
  <2>1. k \in {"A", "B", "H", "F"}
    BY DEF ArrowKeys
  <2>2. n \in Nat
    BY <1>w, RowsTyped
  <2>3. w.selected \in Nat \ {0}
    BY <1>w DEF Typed
  <2> HIDE DEF n
  <2>4. Max({1, n}) = IF 1 >= n THEN 1 ELSE n
    BY <2>2, MaxOfTwo
  <2>5. Max({1, w.selected - 1}) = IF 1 >= w.selected - 1 THEN 1 ELSE w.selected - 1
    BY <2>3, MaxOfTwo
  <2>6. to \in Nat \ {0}
    BY <2>1, <2>2, <2>3, <2>4, <2>5
  <2> HIDE DEF to
  <2>7. Tame(w, Dirty([w EXCEPT !.selected = to]))
    BY <1>w, <2>6, MovesTame
  <2> QED BY <2>7, TameFine
<1>7. Arrow(w, s, k) =
        IF w.editing THEN IF w.menu THEN ChoiceKey(w, s, k) ELSE Dirty(w)
        ELSE IF w.grid /\ w.page = "led" /\ s.leds THEN Dirty(w)
        ELSE IF w.grid /\ w.page = "pixel" /\ s.groups # <<>>
        THEN IF k \in {"A", "D"} THEN StepPixel(w, s, -1)
             ELSE IF k \in {"B", "C"} THEN StepPixel(w, s, 1) ELSE JumpPixel(w, s, k)
        ELSE IF ~w.grid /\ w.section /\ sideways THEN ToggleSection(w, s, how)
        ELSE IF ~w.grid /\ ~sideways THEN MoveItem(w, s, k)
        ELSE IF sideways
        THEN IF HasRow(w, s) /\ Row(w, s).kind \in {"level", "choice"} THEN Adjust(w, s, key)
             ELSE NextPage(w, s, d)
        ELSE Dirty([w EXCEPT !.selected = to])
  BY Zenon DEF Arrow
<1> HIDE DEF sideways, to, how, key, d
<1> QED BY <1>1, <1>2, <1>3, <1>4, <1>5, <1>6, <1>7, Zenon

\* The wheel is three arrows that ask for nothing.
Rolls(w) == IsView(w) /\ Typed(w) /\ Idle(w) /\ ~w.grid /\ (w.editing => w.menu)
LEMMA ArrowRolls ==
  ASSUME NEW w, Rolls(w), NEW s, Published(s), NEW k \in {"A", "B"}
  PROVE  Tame(w, Arrow(w, s, k)) /\ Rolls(Arrow(w, s, k))
<1> DEFINE x == Arrow(w, s, k)
<1>0. IsView(w) /\ Typed(w) /\ Idle(w) /\ ~w.grid /\ (w.editing => w.menu)
  BY DEF Rolls
<1>1. CASE w.editing
  <2>1. x = ChoiceKey(w, s, k)
    BY <1>0, <1>1, Zenon DEF Arrow
  <2>2. /\ Tame(w, ChoiceKey(w, s, k)) /\ ChoiceKey(w, s, k).grid = w.grid
        /\ ChoiceKey(w, s, k).editing => ChoiceKey(w, s, k).menu
    BY <1>0, <1>1, ChoiceKeyTame
  <2>3. Tame(w, x) /\ x.grid = w.grid /\ (x.editing => x.menu)
    BY <2>1, <2>2, Zenon
  <2> HIDE DEF x
  <2>4. Tame(w, x) /\ Rolls(x)
    BY <1>0, <2>3 DEF Rolls, Tame, Does
  <2> QED BY <2>4 DEF x
<1>2. CASE ~w.editing
  <2>0. k \notin {"C", "D"}
    OBVIOUS
  <2>1. x = MoveItem(w, s, k)
    BY <1>0, <1>2, <2>0, Zenon DEF Arrow
  <2>2. k \in {"A", "B", "H", "F"}
    OBVIOUS
  <2>3. LET y == MoveItem(w, s, k) IN
        Tame(w, y) /\ y.grid = w.grid /\ y.editing = w.editing /\ y.menu = w.menu
    BY <1>0, <2>2, MoveItemTame, Zenon
  <2>4. Tame(w, x) /\ x.grid = w.grid /\ x.editing = w.editing
    BY <2>1, <2>3, Zenon
  <2> HIDE DEF x
  <2>5. Tame(w, x) /\ Rolls(x)
    BY <1>0, <1>2, <2>4 DEF Rolls, Tame, Does
  <2> QED BY <2>5 DEF x
<1> QED BY <1>1, <1>2

LEMMA WheelTame ==
  ASSUME NEW w, IsView(w), Typed(w), Idle(w), NEW s, Published(s), NEW k \in {"A", "B"}
  PROVE  Tame(w, Wheel(w, s, k))
<1> DEFINE a == Arrow(w, s, k)
           b == Arrow(a, s, k)
           c == Arrow(b, s, k)
<1>1. CASE (w.editing /\ ~w.menu) \/ w.grid
  <2>1. Wheel(w, s, k) = w
    BY <1>1, Zenon DEF Wheel
  <2> QED BY <2>1, CancelTame
<1>2. CASE ~((w.editing /\ ~w.menu) \/ w.grid)
  <2>0. Wheel(w, s, k) = c
    BY <1>2, Zenon DEF Wheel
  <2>1. Rolls(w)
    BY <1>2 DEF Rolls
  <2>2. Tame(w, a) /\ Rolls(a)
    BY <2>1, ArrowRolls
  <2> HIDE DEF a
  <2>3. Tame(a, b) /\ Rolls(b)
    BY <2>2, ArrowRolls
  <2> HIDE DEF b
  <2>4. Tame(b, c)
    BY <2>3, ArrowRolls
  <2> HIDE DEF c
  <2>5. Tame(w, c)
    BY <2>2, <2>3, <2>4, TameTwice DEF Tame
  <2> QED BY <2>0, <2>5
<1> QED BY <1>1, <1>2

LEMMA PlainFine ==
  ASSUME NEW w, NEW s, Ready(w, s), Published(s), NEW b, NEW d \in Drafts
  PROVE  Fine(w, Plain(w, s, b, d), s)
<1>w. IsView(w) /\ Typed(w) /\ Idle(w)
  BY DEF Ready
<1>1. Fine(w, [w EXCEPT !.esc = 1], s)
  <2>1. 1 \in 0..2
    OBVIOUS
  <2>2. Tame(w, [w EXCEPT !.esc = 1])
    BY <2>1, MarkReady
  <2> QED BY <2>2, TameFine
<1>2. Fine(w, Cancel(w), s) /\ Fine(w, Repaint(w), s) /\ Fine(w, w, s)
  BY <1>w, CancelTame, TameFine
<1>3. Fine(w, [w EXCEPT !.active = FALSE, !.act = [type |-> "exit"]], s)
  <2> DEFINE a == [type |-> "exit"]
             x == [w EXCEPT !.active = FALSE, !.act = a]
  <2>1. a.type = "exit"
    OBVIOUS
  <2> HIDE DEF a
  <2>2. IsView(x) /\ x.act = a /\ Asked(w, x) /\ Typed(x)
    BY <1>w DEF Typed, Asked, Placed, IsView, ViewFields
  <2> HIDE DEF x
  <2>3. Allowed(x, s)
    BY <2>1, <2>2 DEF Allowed
  <2> QED BY <2>2, <2>3 DEF Fine, Does, x, a
<1>4. w.editing => Fine(w, Edit(w, s, b, d), s)
  BY EditFine
<1>5. Fine(w, [ToggleSection(w, s, "flip") EXCEPT !.cr = b = "cr"], s)
  <2> DEFINE x == ToggleSection(w, s, "flip")
             c == b = "cr"
             y == [x EXCEPT !.cr = c]
  <2> HIDE DEF c
  <2>1. Tame(w, x)
    BY ToggleTame
  <2> HIDE DEF x
  <2>2. Does(x, y) /\ y.act = x.act
    BY <2>1, MarkDoes DEF Tame, Does, IsView, ViewFields
  <2> HIDE DEF y
  <2>3. Tame(w, y)
    BY <2>1, <2>2, DoesTwice DEF Tame, Idle
  <2> QED BY <2>3, TameFine DEF y, x, c
<1>6. Fine(w, Adjust(w, s, b), s) /\ Fine(w, Key(w, s, b), s)
  BY AdjustFine, KeyFine
<1> QED BY <1>1, <1>2, <1>3, <1>4, <1>5, <1>6, Zenon DEF Plain

LEMMA FinalFine ==
  ASSUME NEW w, NEW s, Ready(w, s), Published(s), NEW b \in Finals, NEW d \in Drafts
  PROVE  Fine(w, Final(w, s, b, d), s)
<1>1. Fine(w, w, s) /\ Fine(w, StartDialog(w, s), s)
  BY ReadyFine, StartDialogFine
<1>2. w.editing => Fine(w, Edit(w, s, "text", d), s) /\ Fine(w, Arrow(w, s, "Z"), s)
  BY EditFine, ArrowFine
<1>3. Fine(w, NextPage(w, s, -1), s)
  BY NextPageTame, TameFine
<1>4. b # "Q" /\ b # "delete" /\ b # "Z" => Fine(w, Arrow(w, s, b), s)
  <2>1. b # "Q" /\ b # "delete" /\ b # "Z" => b \in ArrowKeys
    BY DEF Finals, ArrowKeys
  <2> QED BY <2>1, ArrowFine
<1> QED BY <1>1, <1>2, <1>3, <1>4, Zenon DEF Final

-----------------------------------------------------------------------------
\* The pointer: a press is on a line that the last painting showed.
LEMMA PressRowFine ==
  ASSUME NEW x, NEW s, Ready(x, s), Published(s), x.selected <= Len(Rows(x, s)), NEW e,
         NEW z \in PressRow(x, s, e)
  PROVE  Fine(x, z, s)
<1> DEFINE r == Row(x, s)
<1>1. /\ Fine(x, x, s) /\ Fine(x, ToggleSection(x, s, "flip"), s) /\ Fine(x, StartDialog(x, s), s)
      /\ Fine(x, Adjust(x, s, "space"), s)
  BY ReadyFine, ToggleTame, TameFine, StartDialogFine, AdjustFine
<1>2. Fine(x, Enter([x EXCEPT !.cr = TRUE], s, FALSE), s)
  <2> DEFINE y == [x EXCEPT !.cr = TRUE]
  <2>1. Ready(y, s) /\ Tame(x, y)
    BY MarkReady
  <2> HIDE DEF y
  <2>2. Fine(x, Enter(y, s, FALSE), s)
    BY <2>1, EnterFine, FineAfter DEF Tame
  <2> QED BY <2>2 DEF y
<1>3. ASSUME ~x.section, Changeable(r), NEW l PROVE Fine(x, [x EXCEPT !.act = Act("set", r.key, Levels[l])], s)
  <2> DEFINE a == Act("set", r.key, Levels[l])
             y == [x EXCEPT !.act = a]
  <2>1. a.type = "set" /\ a.key = r.key
    BY ActIs
  <2> HIDE DEF a
  <2>2. Does(x, y) /\ y.act = a /\ y.page = x.page /\ y.closed = x.closed
    BY MarkDoes DEF Ready, IsView, ViewFields
  <2> HIDE DEF y
  <2>3. HasRow(x, s)
    BY <1>3 DEF HasRow
  <2>4. Fine(x, y, s)
    BY <1>3, <2>1, <2>2, <2>3, SetFine
  <2> QED BY <2>4 DEF y, a
<1>4. CASE x.section
  <2>1. z = IF e.kind = "drag" THEN x ELSE ToggleSection(x, s, "flip")
    BY <1>4, Zenon DEF PressRow
  <2> QED BY <1>1, <2>1
<1>5. CASE ~x.section
  <2> DEFINE slider == r.kind = "level" /\ r.low < r.high /\ r.value \in {Levels[i] : i \in r.low..r.high}
  <2>1. \/ z = StartDialog(x, s) \/ z = x \/ z = Adjust(x, s, "space")
        \/ z = Enter([x EXCEPT !.cr = TRUE], s, FALSE)
        \/ Changeable(r) /\ z \in {IF Levels[l] = r.value THEN x
                                   ELSE [x EXCEPT !.act = Act("set", r.key, Levels[l])] : l \in r.low..r.high}
    <3> HIDE DEF slider
    <3>1. z \in IF e.kind = "dialog" THEN {StartDialog(x, s)}
                ELSE IF ~e.value \/ ~Changeable(r) \/ r.secret THEN {x}
                ELSE IF slider
                THEN {IF Levels[l] = r.value THEN x ELSE [x EXCEPT !.act = Act("set", r.key, Levels[l])] :
                        l \in r.low..r.high}
                ELSE IF e.kind = "drag" THEN {x}
                ELSE IF r.kind \in {"toggle", "choice"} THEN {Adjust(x, s, "space")}
                ELSE {Enter([x EXCEPT !.cr = TRUE], s, FALSE)}
      BY <1>5, Zenon DEF PressRow, slider
    <3> HIDE DEF r
    <3> QED BY <3>1, Zenon
  <2>2. ASSUME Changeable(r), NEW l \in r.low..r.high,
               z = IF Levels[l] = r.value THEN x ELSE [x EXCEPT !.act = Act("set", r.key, Levels[l])]
        PROVE  Fine(x, z, s)
    BY <1>1, <1>3, <1>5, <2>2, Zenon
  <2> QED BY <1>1, <1>2, <2>1, <2>2, Zenon
<1> QED BY <1>4, <1>5

LEMMA PressLineFine ==
  ASSUME NEW w, NEW s, Ready(w, s), ~w.editing, Published(s), screen.start \in Nat \ {0},
         NEW e, e.at \in Nat \ {0}, NEW z \in PressLine(w, s, e)
  PROVE  Fine(w, z, s)
<1> DEFINE items == SectionItems(w, s)
           line == screen.start + e.at - 1
           x == Dirty([w EXCEPT !.selected = items[line].at, !.section = items[line].head])
<1>0. Fine(w, w, s)
  BY ReadyFine
<1>1. CASE w.grid \/ e.at > screen.shown \/ line > Len(items)
  <2>1. z = w
    BY <1>1, Zenon DEF PressLine, PressItem
  <2> QED BY <1>0, <2>1
<1>2. CASE ~(w.grid \/ e.at > screen.shown \/ line > Len(items))
  <2>1. z \in PressRow(x, s, e)
    BY <1>2, Zenon DEF PressLine, PressItem
  <2>2. items \in Seq(LineSet(w, s))
    BY ItemsIn DEF Ready
  <2>3. items[line] \in LineSet(w, s)
    <3>1. line \in Nat \ {0} /\ ~(line > Len(items))
      BY <1>2
    <3>2. Len(items) \in Nat
      BY <2>2
    <3> HIDE DEF line, items
    <3>3. line \in 1..Len(items)
      BY <3>1, <3>2
    <3> QED BY <2>2, <3>3
  <2> DEFINE a == items[line].at
             h == items[line].head
             y == Dirty([w EXCEPT !.selected = a, !.section = h])
  <2>4. a \in 1..Len(Rows(w, s)) /\ (~h => ~Hidden(w, s, a))
    <3> HIDE DEF items, line
    <3> QED BY <2>3 DEF LineSet
  <2>5. Len(Rows(w, s)) \in Nat
    BY RowsTyped DEF Ready
  <2>6. x = y
    OBVIOUS
  <2> HIDE DEF a, h, x
  <2>w. IsView(w) /\ Typed(w) /\ Idle(w)
    BY DEF Ready
  <2>7. LET u == Dirty([w EXCEPT !.selected = a, !.section = h]) IN
        Tame(w, u) /\ u.grid = w.grid /\ u.editing = w.editing /\ u.menu = w.menu
    <3>1. a \in 1..Len(Rows(w, s))
      BY <2>4
    <3> HIDE DEF y, items, line
    <3> QED BY ONLY <2>w, <2>5, <3>1, GoToTame, Zenon
  <2>8. y.selected = a /\ y.section = h /\ y.page = w.page /\ y.closed = w.closed /\ y.schema = w.schema
    BY <2>w DEF IsView, Dirty, ViewFields
  <2> HIDE DEF y
  <2>9. Tame(w, y) /\ ~y.editing
    BY <2>7, Zenon DEF y
  <2>10. Rows(y, s) = Rows(w, s)
    BY <2>8 DEF Rows
  <2>11. \A i : Hidden(y, s, i) <=> Hidden(w, s, i)
    <3>1. \A i : SectionStart(y, s, i) <=> SectionStart(w, s, i)
      BY <2>10, Zenon DEF SectionStart
    <3>2. \A i : StartOf(y, s, i) = StartOf(w, s, i)
      BY <2>10, Zenon DEF StartOf
    <3> QED BY <2>8, <3>1, <3>2, Zenon DEF Hidden
  <2>12. Schema(y, s) = Schema(w, s)
    BY <2>10, Zenon DEF Schema
  <2>13. y.schema[y.page] = Schema(y, s)
    <3>1. w.schema[w.page] = Schema(w, s)
      BY DEF Ready
    <3> QED BY <2>8, <2>12, <3>1, Zenon
  <2>14. HasRow(y, s) => ~Hidden(y, s, y.selected)
    BY <2>4, <2>8, <2>11, Zenon DEF HasRow
  <2>15. ChoiceHolds(y, s)
    BY <2>9, Zenon DEF ChoiceHolds
  <2>16. Ready(y, s)
    BY <2>9, <2>13, <2>14, <2>15 DEF Ready, Tame, Does
  <2>17. y.selected <= Len(Rows(y, s))
    BY <2>4, <2>5, <2>8, <2>10
  <2>18. Fine(y, z, s)
    BY <2>1, <2>6, <2>16, <2>17, PressRowFine
  <2> QED BY <2>9, <2>18, FineAfter DEF Tame
<1> QED BY <1>1, <1>2

LEMMA PressDraftFine ==
  ASSUME NEW w, NEW s, Ready(w, s), w.editing, Published(s), NEW e, e.kind = "entry" => e.at \in Nat \ {0}
  PROVE  Fine(w, PressDraft(w, s, e), s)
<1>w. IsView(w) /\ Typed(w) /\ Idle(w)
  BY DEF Ready
<1>1. Fine(w, w, s) /\ Fine(w, Cancel(w), s)
  BY <1>w, CancelTame, TameFine
<1>2. ASSUME w.menu, e.kind = "entry", ~(e.at > Len(Row(w, s).options))
      PROVE  Fine(w, Apply([Choose(w, s, e.at) EXCEPT !.cr = TRUE], s), s)
  <2> DEFINE x == Choose(w, s, e.at)
             y == [x EXCEPT !.cr = TRUE]
  <2>1. ChoiceHolds(w, s) /\ HasRow(w, s)
    BY <1>2 DEF Ready, ChoiceHolds
  <2>2. e.at \in 1..Len(Row(w, s).options)
    <3>1. Row(w, s) \in SnapshotRow
      BY <1>w, <2>1, RowTyped
    <3>2. Len(Row(w, s).options) \in Nat
      BY <3>1 DEF SnapshotRow
    <3> QED BY <1>2, <3>2
  <2>3. Does(w, x) /\ x.act = w.act
    BY <1>w, <2>1, <2>2, ChooseDoes
  <2>4. /\ x.page = w.page /\ x.selected = w.selected /\ x.section = w.section
        /\ x.closed = w.closed /\ x.schema = w.schema /\ x.menu = w.menu /\ x.editing = w.editing
        /\ x.key = w.key /\ x.observed = w.observed /\ x.choice = e.at
    <3> DEFINE o == Row(w, s).options[e.at]
               c == o # Row(w, s).value
    <3>1. x = Repaint([w EXCEPT !.choice = e.at, !.draft = o, !.changed = c])
      BY Zenon DEF Choose
    <3> HIDE DEF o, c, x
    <3> QED BY <1>w, <3>1 DEF IsView, Repaint, ViewFields
  <2> HIDE DEF x
  <2>5. Rows(x, s) = Rows(w, s) /\ Row(x, s) = Row(w, s) /\ (HasRow(x, s) <=> HasRow(w, s))
    BY <2>4 DEF Rows, Row, HasRow
  <2>6. \A i : Hidden(x, s, i) <=> Hidden(w, s, i)
    <3>1. \A i : SectionStart(x, s, i) <=> SectionStart(w, s, i)
      BY <2>5, Zenon DEF SectionStart
    <3>2. \A i : StartOf(x, s, i) = StartOf(w, s, i)
      BY <2>5, Zenon DEF StartOf
    <3> QED BY <2>4, <3>1, <3>2, Zenon DEF Hidden
  <2>7. Schema(x, s) = Schema(w, s)
    BY <2>5, Zenon DEF Schema
  <2>8. x.schema[x.page] = Schema(x, s)
    <3>1. w.schema[w.page] = Schema(w, s)
      BY DEF Ready
    <3> QED BY <2>4, <2>7, <3>1, Zenon
  <2>9. HasRow(x, s) => ~Hidden(x, s, x.selected)
    <3>1. HasRow(w, s) => ~Hidden(w, s, w.selected)
      BY DEF Ready
    <3> QED BY <2>4, <2>5, <2>6, <3>1, Zenon
  <2>10. ChoiceHolds(x, s)
    <3>1. w.menu /\ w.editing => /\ HasRow(w, s) /\ Changeable(Row(w, s)) /\ ~Row(w, s).secret
            /\ Row(w, s).kind = "choice" /\ Row(w, s).key = w.key /\ w.observed = RowHash(Row(w, s))
      BY <2>1 DEF ChoiceHolds
    <3>2. x.choice <= Len(Row(x, s).options)
      <4>1. Row(w, s) \in SnapshotRow
        BY <1>w, <2>1, RowTyped
      <4>2. Len(Row(w, s).options) \in Nat
        BY <4>1 DEF SnapshotRow
      <4> QED BY <2>2, <2>4, <2>5, <4>2
    <3> QED BY <2>4, <2>5, <3>1, <3>2, Zenon DEF ChoiceHolds
  <2>11. Ready(x, s)
    BY <1>w, <2>3, <2>8, <2>9, <2>10 DEF Ready, Does, Idle
  <2>12. Ready(y, s) /\ Tame(x, y)
    BY <2>11, MarkReady
  <2> HIDE DEF y
  <2>13. Fine(w, Apply(y, s), s)
    BY <2>3, <2>12, ApplyFine, FineAfter DEF Tame
  <2> QED BY <2>13 DEF y, x
<1>3. Fine(w, Apply([w EXCEPT !.focus = "apply", !.cr = TRUE], s), s)
  <2> DEFINE x == [w EXCEPT !.focus = "apply"]
             y == [x EXCEPT !.cr = TRUE]
  <2>0. [w EXCEPT !.focus = "apply", !.cr = TRUE] = y
    BY <1>w DEF IsView, ViewFields
  <2>1. Ready(x, s) /\ Tame(w, x)
    BY MarkReady
  <2> HIDE DEF x
  <2>2. Ready(y, s) /\ Tame(x, y)
    BY <2>1, MarkReady
  <2> HIDE DEF y
  <2>3. Fine(w, Apply(y, s), s)
    BY <2>1, <2>2, ApplyFine, FineAfter, DoesTwice DEF Tame
  <2> QED BY <2>0, <2>3
<1>4. Fine(w, Dirty([w EXCEPT !.focus = "draft"]), s)
  <2> DEFINE x == [w EXCEPT !.focus = "draft"]
  <2>1. Ready(x, s) /\ Tame(w, x)
    BY MarkReady
  <2> HIDE DEF x
  <2>2. Fine(x, Dirty(x), s)
    BY <2>1, CancelTame, TameFine DEF Ready
  <2>3. Fine(w, Dirty(x), s)
    BY <2>1, <2>2, FineAfter DEF Tame
  <2> QED BY <2>3 DEF x
<1> QED BY <1>1, <1>2, <1>3, <1>4, Zenon DEF PressDraft

ReportsAre(e) ==
  /\ e.kind = "tab" => e.at \in PageSet
  /\ e.kind \in {"press", "drag", "dialog", "entry"} => e.at \in Nat \ {0}
LEMMA ReportsTyped == ASSUME NEW e \in Reports PROVE ReportsAre(e)
<1> DEFINE A == {Report(k, 0, FALSE) : k \in {"release", "up", "down", "cancel", "apply", "draft", "right"}}
           B == {Report("tab", p, FALSE) : p \in PageSet}
           C == {Report(k, n, b) : k \in {"press", "drag", "dialog"}, n \in 1..TableLines, b \in BOOLEAN}
           D == {Report("entry", n, FALSE) : n \in 1..2}
<1>1. Reports = A \union B \union C \union D
  BY ONLY DEF Reports
<1>2. CASE e \in A
  BY <1>2 DEF Report, ReportsAre
<1>3. CASE e \in B
  BY <1>3 DEF Report, ReportsAre
<1>4. CASE e \in C
  <2>1. PICK k \in {"press", "drag", "dialog"}, n \in 1..TableLines, b \in BOOLEAN : e = Report(k, n, b)
    BY <1>4
  <2>2. n \in Nat \ {0}
    BY ViewAssumption
  <2> QED BY <2>1, <2>2 DEF Report, ReportsAre
<1>5. CASE e \in D
  <2>1. PICK n \in 1..2 : e = Report("entry", n, FALSE)
    BY <1>5
  <2>2. n \in Nat \ {0}
    OBVIOUS
  <2>3. e.kind = "entry" /\ e.at = n
    BY <2>1 DEF Report
  <2> QED BY <2>2, <2>3 DEF ReportsAre
<1> HIDE DEF A, B, C, D
<1>6. e \in A \/ e \in B \/ e \in C \/ e \in D
  BY <1>1
<1> QED BY <1>2, <1>3, <1>4, <1>5, <1>6

LEMMA PointedFine ==
  ASSUME NEW x, NEW s, Ready(x, s), Published(s), screen.start \in Nat \ {0}, NEW e, ReportsAre(e),
         NEW z \in Pointed(x, s, e)
  PROVE  Fine(x, z, s)
<1> DEFINE y == IF e.kind = "drag" THEN x ELSE [x EXCEPT !.drag = TRUE]
           k == IF e.kind = "up" THEN "A" ELSE "B"
<1>1. Ready(y, s) /\ Tame(x, y)
  BY MarkReady, ReadyFine
<1>2. Fine(x, [x EXCEPT !.drag = FALSE], s)
  BY MarkReady, TameFine
<1>3. Fine(x, x, s)
  BY ReadyFine
<1>4. Fine(x, Wheel(x, s, k), s)
  <2>1. k \in {"A", "B"}
    OBVIOUS
  <2> HIDE DEF k
  <2> QED BY <2>1, WheelTame, TameFine DEF Ready
<1> HIDE DEF y, k
<1>5. y.editing => Fine(x, PressDraft(y, s, e), s)
  BY <1>1, PressDraftFine, FineAfter DEF ReportsAre, Tame
<1>6. e.kind = "tab" => Fine(x, PressTab(y, s, e.at), s)
  <2> SUFFICES ASSUME e.kind = "tab" PROVE Fine(x, PressTab(y, s, e.at), s)
    OBVIOUS
  <2> DEFINE p == e.at
             u == Repaint([y EXCEPT !.page = p, !.selected = 1, !.section = FALSE, !.grid = FALSE])
  <2>1. p \in PageSet
    BY DEF ReportsAre
  <2> HIDE DEF p
  <2>2. Does(y, u) /\ u.act = y.act
    BY <1>1, <2>1, GoesDoes DEF Ready
  <2> HIDE DEF u
  <2>3. Tame(y, u)
    BY <1>1, <2>2 DEF Ready, Tame, Idle
  <2>4. Fine(x, u, s) /\ Fine(x, y, s)
    BY <1>1, <2>3, TameTwice, TameFine DEF Tame
  <2>5. PressTab(y, s, p) = IF Available(p, s) THEN u ELSE y
    BY Zenon DEF PressTab, u
  <2>6. Fine(x, PressTab(y, s, p), s)
    BY <2>4, <2>5
  <2> QED BY <2>6 DEF p
<1>7. ~y.editing /\ e.kind \in {"press", "drag", "dialog"} => \A u \in PressLine(y, s, e) : Fine(x, u, s)
  BY <1>1, PressLineFine, FineAfter DEF ReportsAre, Tame
<1>8. Fine(x, y, s)
  BY <1>1, TameFine
<1>9. Pointed(x, s, e) =
        IF e.kind = "release" THEN {[x EXCEPT !.drag = FALSE]}
        ELSE IF s.small \/ (e.kind = "drag" /\ ~v.drag) THEN {x}
        ELSE IF e.kind \in {"up", "down"} THEN {Wheel(x, s, k)}
        ELSE IF y.editing THEN {PressDraft(y, s, e)}
        ELSE IF e.kind = "tab" THEN {PressTab(y, s, e.at)}
        ELSE IF e.kind \in {"press", "drag", "dialog"} THEN PressLine(y, s, e)
        ELSE {y}
  BY Zenon DEF Pointed, y, k
<1>10. \/ z = [x EXCEPT !.drag = FALSE] \/ z = x \/ z = Wheel(x, s, k) \/ z = y
       \/ y.editing /\ z = PressDraft(y, s, e)
       \/ e.kind = "tab" /\ z = PressTab(y, s, e.at)
       \/ ~y.editing /\ e.kind \in {"press", "drag", "dialog"} /\ z \in PressLine(y, s, e)
  BY <1>9, Zenon
<1> QED BY <1>2, <1>3, <1>4, <1>5, <1>6, <1>7, <1>8, <1>10, Zenon

-----------------------------------------------------------------------------
\* The view is where its rows let it be.
Steady(w, s) ==
  /\ w.schema[w.page] = Schema(w, s)
  /\ Rows(w, s) = <<>> => w.selected = 1 /\ w.section = FALSE
  /\ Rows(w, s) # <<>> =>
       /\ w.selected <= Len(Rows(w, s))
       /\ w.section => SectionStart(w, s, w.selected)
       /\ Hidden(w, s, w.selected) => w.section = TRUE /\ StartOf(w, s, w.selected) = w.selected

\* What is read of a view does not depend on more than where it is.
SamePlace(w, x) ==
  /\ x.page = w.page /\ x.selected = w.selected /\ x.section = w.section
  /\ x.closed = w.closed /\ x.schema = w.schema
LEMMA PlaceReads ==
  ASSUME NEW w, NEW x, x.page = w.page, x.closed = w.closed, NEW s
  PROVE  /\ Rows(x, s) = Rows(w, s) /\ Schema(x, s) = Schema(w, s)
         /\ \A i : SectionStart(x, s, i) <=> SectionStart(w, s, i)
         /\ \A i : StartOf(x, s, i) = StartOf(w, s, i)
         /\ \A i : Hidden(x, s, i) <=> Hidden(w, s, i)
<1>1. Rows(x, s) = Rows(w, s)
  BY DEF Rows
<1>2. Schema(x, s) = Schema(w, s)
  BY <1>1, Zenon DEF Schema
<1>3. \A i : SectionStart(x, s, i) <=> SectionStart(w, s, i)
  BY <1>1, Zenon DEF SectionStart
<1>4. \A i : StartOf(x, s, i) = StartOf(w, s, i)
  BY <1>1, Zenon DEF StartOf
<1>5. \A i : Hidden(x, s, i) <=> Hidden(w, s, i)
  BY <1>3, <1>4, Zenon DEF Hidden
<1> QED BY <1>1, <1>2, <1>3, <1>4, <1>5
LEMMA SteadySame == ASSUME NEW w, NEW x, SamePlace(w, x), NEW s, Steady(w, s) PROVE Steady(x, s)
<1>0. x.page = w.page /\ x.closed = w.closed /\ x.selected = w.selected /\ x.section = w.section /\ x.schema = w.schema
  BY DEF SamePlace
<1>1. /\ Rows(x, s) = Rows(w, s) /\ Schema(x, s) = Schema(w, s)
      /\ (SectionStart(x, s, w.selected) <=> SectionStart(w, s, w.selected))
      /\ StartOf(x, s, w.selected) = StartOf(w, s, w.selected)
      /\ (Hidden(x, s, w.selected) <=> Hidden(w, s, w.selected))
  BY <1>0, PlaceReads
<1>2. x.schema[x.page] = Schema(x, s)
  BY <1>0, <1>1, Zenon DEF Steady
<1> QED BY <1>0, <1>1, <1>2 DEF Steady

\* The start of a section is not after the rows of it, and starts itself.
LEMMA StartIs ==
  ASSUME NEW w, NEW s, NEW i \in Nat \ {0}
  PROVE  /\ StartOf(w, s, i) \in 1..i
         /\ StartOf(w, s, StartOf(w, s, i)) = StartOf(w, s, i)
<1> DEFINE r == Rows(w, s)
           B(j) == j = 1 \/ r[j].cat # r[j - 1].cat
           Starts(k) == {j \in 1..k : B(j)}
<1> HIDE DEF B
<1>1. ASSUME NEW k \in Nat \ {0}
      PROVE  Max(Starts(k)) \in Starts(k) /\ \A j \in Starts(k) : Max(Starts(k)) >= j
  <2>1. 1 \in Starts(k) /\ Starts(k) \in SUBSET (0..k)
    BY DEF B
  <2> DEFINE T == Starts(k)
  <2> HIDE DEF Starts
  <2>2. \E x \in T : \A y \in T : x >= y
    <3>1. T # {} /\ T \in SUBSET (0..k) /\ k \in Nat
      BY <2>1
    <3> HIDE DEF T
    <3> QED BY <3>1, GreatestIn
  <2>3. Max(T) \in T /\ \A y \in T : Max(T) >= y
    BY <2>2, Zenon DEF Max
  <2> QED BY <2>3
<1>2. \A k : StartOf(w, s, k) = Max(Starts(k))
  BY Zenon DEF StartOf, B
<1> DEFINE m == Max(Starts(i))
<1>3. m \in 1..i /\ B(m)
  BY <1>1
<1> HIDE DEF m
<1>4. m \in Starts(m) /\ m \in Nat \ {0}
  BY <1>3
<1>5. Max(Starts(m)) >= m /\ Max(Starts(m)) \in 1..m
  BY <1>1, <1>4
<1>6. Max(Starts(m)) = m
  <2> DEFINE q == Max(Starts(m))
  <2>1. q >= m /\ q \in 1..m /\ m \in Nat
    BY <1>4, <1>5
  <2> HIDE DEF q
  <2>2. q = m
    BY <2>1
  <2> QED BY <2>2 DEF q
<1> QED BY <1>2, <1>3, <1>6 DEF m

\* syncSections() asks for what it changes, and leaves the view where its rows let it be.
LEMMA SyncSectionsDoes ==
  ASSUME NEW w, IsView(w), Typed(w), NEW s, Published(s),
         ~w.dirty => \E t : Published(t) /\ Steady(w, t)
  PROVE  LET x == SyncSections(w, s) IN Does(w, x) /\ Steady(x, s) /\ x.act = w.act
<1> DEFINE a == KnowsRows(w, s)
           b == InTable(a, s)
           c == OnHeading(b, s)
           x == OutOfClosed(c, s)
<1>0. SyncSections(w, s) = x
  BY Zenon DEF SyncSections
<1>1. /\ Does(w, a) /\ a.act = w.act /\ a.page = w.page /\ a.schema[a.page] = Schema(a, s)
      /\ a = w \/ (a.dirty /\ a.full)
  <2>1. CASE w.schema[w.page] = Schema(w, s)
    <3>1. a = w
      BY <2>1, Zenon DEF KnowsRows
    <3> HIDE DEF a
    <3> QED BY <2>1, <3>1, DoesSame
  <2>2. CASE w.schema[w.page] # Schema(w, s)
    <3> DEFINE p == w.page
               schema == [w.schema EXCEPT ![p] = Schema(w, s)]
               closed == [w.closed EXCEPT ![p] = {}]
               y == Repaint([w EXCEPT !.schema = schema, !.closed = closed, !.section = FALSE])
    <3>1. a = y
      BY <2>2 DEF KnowsRows
    <3> HIDE DEF a
    <3>2. Folded(w.closed, w.schema) /\ p \in PageSet
      BY DEF Typed
    <3>3. Folded(closed, schema) /\ schema[p] = Schema(w, s)
      BY <3>2 DEF Folded
    <3> HIDE DEF schema, closed
    <3>4. /\ IsView(y) /\ y.dirty /\ y.full /\ y.closed = closed /\ y.schema = schema /\ y.act = w.act
          /\ y.page = w.page /\ y.selected = w.selected /\ y.esc = w.esc /\ y.focus = w.focus
          /\ y.draft = w.draft /\ y.choice = w.choice /\ y.pixel = w.pixel
      BY DEF IsView, Repaint, ViewFields
    <3> HIDE DEF y
    <3>5. Typed(y)
      BY <3>3, <3>4, Zenon DEF Typed
    <3>6. Does(w, y)
      BY <3>4, <3>5 DEF Does, Asked
    <3>7. Schema(y, s) = Schema(w, s)
      <4>1. Rows(y, s) = Rows(w, s)
        BY <3>4 DEF Rows
      <4> QED BY <4>1, Zenon DEF Schema
    <3> QED BY <3>1, <3>3, <3>4, <3>6, <3>7
  <2> QED BY <2>1, <2>2
<1> HIDE DEF a
<1> DEFINE Only(y, z) ==
             /\ IsView(z) /\ Typed(z) /\ z.page = y.page /\ z.closed = y.closed /\ z.schema = y.schema
             /\ z.dirty = y.dirty /\ z.full = y.full /\ z.editing = y.editing /\ z.act = y.act
             /\ z.grid = y.grid
<1>3. ASSUME NEW y, IsView(y), Typed(y), NEW h
      PROVE  /\ Only(y, [y EXCEPT !.section = h]) /\ [y EXCEPT !.section = h].section = h
             /\ [y EXCEPT !.section = h].selected = y.selected
  BY <1>3 DEF Typed, IsView, ViewFields
<1>4. ASSUME NEW y, NEW z, NEW u, Only(y, z), Only(z, u) PROVE Only(y, u)
  BY <1>4
<1>5. ASSUME NEW y, IsView(y), Typed(y) PROVE Only(y, y)
  BY <1>5
<1> DEFINE r == Rows(a, s)
           n == Len(r)
<1>r. r \in Seq(SnapshotRow) /\ n \in Nat /\ (r = <<>> <=> n = 0)
  <2>1. r \in Seq(SnapshotRow)
    BY <1>1, RowsTyped DEF Does
  <2> HIDE DEF r
  <2> QED BY <2>1
<1>a. IsView(a) /\ Typed(a) /\ a.selected \in Nat \ {0}
  BY <1>1 DEF Does, Typed
<1>t. ASSUME NEW y, NEW z, Only(y, z) PROVE Rows(z, s) = Rows(y, s)
  BY <1>t DEF Rows
<1> DEFINE top == Max({1, n})
<1>6. top \in Nat \ {0} /\ top = IF n = 0 THEN 1 ELSE n
  <2> HIDE DEF n
  <2>1. top = IF 1 >= n THEN 1 ELSE n
    BY <1>r, MaxOfTwo
  <2> QED BY <1>r, <2>1
<1> HIDE DEF top
<1>7. /\ Only(a, b)
      /\ n = 0 => b.selected = 1 /\ b.section = FALSE
      /\ n # 0 => b.selected <= n
      /\ a.selected <= n => b = a
      /\ a.selected > n => b.selected = top /\ b.section = FALSE
  <2>1. CASE a.selected <= n
    <3>1. b = a
      BY <2>1, Zenon DEF InTable
    <3> HIDE DEF b, r
    <3>2. n # 0
      BY <1>a, <1>r, <2>1
    <3> QED BY <1>a, <1>5, <1>r, <2>1, <3>1, <3>2
  <2>2. CASE ~(a.selected <= n)
    <3> DEFINE q == [a EXCEPT !.selected = top, !.section = FALSE]
    <3>1. b = q
      BY <2>2, Zenon DEF InTable, top
    <3>2. Only(a, q) /\ q.selected = top /\ q.section = FALSE
      BY <1>a, <1>6 DEF Typed, IsView, ViewFields
    <3> HIDE DEF b, r, q
    <3> QED BY <1>r, <1>6, <2>2, <3>1, <3>2
  <2> QED BY <2>1, <2>2
<1>b. IsView(b) /\ Typed(b) /\ Rows(b, s) = r /\ b.selected \in Nat \ {0}
  BY <1>7, <1>t DEF Typed
<1> HIDE DEF b, top
<1>8. /\ Only(b, c) /\ c.selected = b.selected
      /\ (c.section = b.section \/ c.section = FALSE)
      /\ r # <<>> /\ c.section => SectionStart(b, s, b.selected)
      /\ b.section = FALSE => c = b
      /\ r # <<>> /\ SectionStart(b, s, b.selected) => c = b
      /\ r = <<>> => c = b
  <2>1. CASE r # <<>> /\ b.section /\ ~SectionStart(b, s, b.selected)
    <3>1. c = [b EXCEPT !.section = FALSE]
      BY <1>b, <2>1, Zenon DEF OnHeading
    <3>2. Only(b, [b EXCEPT !.section = FALSE]) /\ [b EXCEPT !.section = FALSE].section = FALSE
          /\ [b EXCEPT !.section = FALSE].selected = b.selected
      BY <1>3, <1>b
    <3> HIDE DEF c, Only, r
    <3> QED BY <2>1, <3>1, <3>2
  <2>2. CASE ~(r # <<>> /\ b.section /\ ~SectionStart(b, s, b.selected))
    <3>1. c = b
      BY <1>b, <2>2, Zenon DEF OnHeading
    <3>2. Only(b, b)
      BY <1>5, <1>b
    <3> HIDE DEF c, Only, r
    <3> QED BY <2>2, <3>1, <3>2
  <2> QED BY <2>1, <2>2
<1>c. IsView(c) /\ Typed(c) /\ Rows(c, s) = r /\ c.selected \in Nat \ {0} /\ c.page = a.page /\ c.closed = a.closed
  BY <1>7, <1>8, <1>b, <1>t
<1> HIDE DEF c
<1> DEFINE h == StartOf(c, s, c.selected)
<1>h. h \in 1..c.selected /\ h \in Nat \ {0} /\ StartOf(c, s, h) = h
  BY <1>c, StartIs
<1> HIDE DEF h
<1>9. /\ Only(c, x)
      /\ r # <<>> /\ Hidden(c, s, c.selected) => x.selected = h /\ x.section = TRUE
      /\ ~(r # <<>> /\ Hidden(c, s, c.selected)) => x = c
  <2>1. CASE r # <<>> /\ Hidden(c, s, c.selected)
    <3> DEFINE q == [c EXCEPT !.selected = h, !.section = TRUE]
    <3>1. x = q
      BY <1>c, <2>1, Zenon DEF OutOfClosed, h
    <3>2. Only(c, q) /\ q.selected = h /\ q.section = TRUE
      BY <1>c, <1>h DEF Typed, IsView, ViewFields
    <3> HIDE DEF x, r, q
    <3> QED BY <2>1, <3>1, <3>2
  <2>2. CASE ~(r # <<>> /\ Hidden(c, s, c.selected))
    <3>1. x = c
      BY <1>c, <2>2, Zenon DEF OutOfClosed
    <3>2. Only(c, c)
      BY <1>5, <1>c
    <3> HIDE DEF x, Only, r
    <3> QED BY <2>2, <3>1, <3>2
  <2> QED BY <2>1, <2>2
<1> HIDE DEF x
<1>10. Only(a, x)
  BY <1>4, <1>7, <1>8, <1>9
<1>s. /\ Rows(x, s) = r /\ Schema(x, s) = Schema(a, s)
      /\ \A i : SectionStart(x, s, i) <=> SectionStart(c, s, i)
      /\ \A i : SectionStart(b, s, i) <=> SectionStart(c, s, i)
      /\ \A i : StartOf(x, s, i) = StartOf(c, s, i)
      /\ \A i : Hidden(x, s, i) <=> Hidden(c, s, i)
  <2>1. x.page = a.page /\ x.closed = a.closed /\ c.page = a.page /\ c.closed = a.closed
        /\ b.page = a.page /\ b.closed = a.closed
    BY <1>10, <1>c, <1>7
  <2> HIDE DEF Only, r
  <2>2. Rows(x, s) = r /\ Schema(x, s) = Schema(a, s)
    BY <2>1, PlaceReads DEF r
  <2>3. /\ \A i : SectionStart(x, s, i) <=> SectionStart(c, s, i)
        /\ \A i : StartOf(x, s, i) = StartOf(c, s, i)
        /\ \A i : Hidden(x, s, i) <=> Hidden(c, s, i)
    BY <2>1, PlaceReads
  <2>4. \A i : SectionStart(b, s, i) <=> SectionStart(c, s, i)
    BY <2>1, PlaceReads
  <2> QED BY <2>2, <2>3, <2>4
<1>11. Steady(x, s)
  <2>1. x.schema[x.page] = Schema(x, s)
    <3>1. x.schema = a.schema /\ x.page = a.page
      BY <1>10
    <3>2. a.schema[a.page] = Schema(a, s)
      BY <1>1
    <3> QED BY <1>s, <3>1, <3>2, Zenon
  <2>2. ASSUME r = <<>> PROVE x.selected = 1 /\ x.section = FALSE
    BY <1>7, <1>8, <1>9, <1>r, <2>2
  <2>3. ASSUME r # <<>>
        PROVE  /\ x.selected <= n
               /\ x.section => SectionStart(x, s, x.selected)
               /\ Hidden(x, s, x.selected) => x.section = TRUE /\ StartOf(x, s, x.selected) = x.selected
    <3>1. c.selected <= n
      BY <1>7, <1>8, <1>r, <2>3
    <3>2. CASE Hidden(c, s, c.selected)
      <4>1. x.selected = h /\ x.section = TRUE
        BY <1>9, <2>3, <3>2
      <4>2. SectionStart(c, s, h)
        BY <3>2, Zenon DEF Hidden, h
      <4>3. StartOf(x, s, x.selected) = x.selected
        BY <1>s, <1>h, <4>1
      <4>4. h <= n
        BY <1>h, <1>c, <1>r, <3>1
      <4> QED BY <1>s, <4>1, <4>2, <4>3, <4>4
    <3>3. CASE ~Hidden(c, s, c.selected)
      <4>1. x = c
        BY <1>9, <3>3
      <4>2. c.section => SectionStart(c, s, c.selected)
        BY <1>8, <1>s, <2>3
      <4> QED BY <3>1, <3>3, <4>1, <4>2
    <3> QED BY <3>2, <3>3
  <2> HIDE DEF Only
  <2> QED BY <1>s, <2>1, <2>2, <2>3 DEF Steady
<1>12. ASSUME ~x.dirty PROVE Placed(w, x)
  <2>1. ~a.dirty /\ a = w /\ ~w.dirty
    BY <1>1, <1>10, <1>12
  <2>2. PICK t : Published(t) /\ Steady(w, t)
    BY <2>1
  <2>3. Schema(a, t) = Schema(a, s)
    BY <1>1, <2>1, <2>2 DEF Steady
  <2>4. n = Len(Rows(w, t)) /\ (r = <<>> <=> Rows(w, t) = <<>>)
    <3>1. Len(Rows(w, t)) = Len(w.schema[w.page]) /\ Len(Rows(w, s)) = Len(w.schema[w.page])
      BY <1>1, <2>1, <2>2, SameLength DEF Steady
    <3>2. Rows(w, t) \in Seq(SnapshotRow)
      BY <2>2, RowsTyped
    <3>3. Rows(w, t) = <<>> <=> Len(Rows(w, t)) = 0
      BY <3>2
    <3> QED BY <1>r, <2>1, <3>1, <3>3
  <2>5. CASE r = <<>>
    <3>1. w.selected = 1 /\ w.section = FALSE
      BY <2>2, <2>4, <2>5 DEF Steady
    <3>2. x.selected = 1 /\ x.section = FALSE
      BY <1>7, <1>8, <1>9, <1>r, <2>5
    <3> QED BY <1>10, <2>1, <3>1, <3>2 DEF Placed
  <2>6. CASE r # <<>>
    <3>1. /\ w.selected <= n
          /\ w.section => SectionStart(w, t, w.selected)
          /\ Hidden(w, t, w.selected) => w.section = TRUE /\ StartOf(w, t, w.selected) = w.selected
      BY <2>2, <2>4, <2>6 DEF Steady
    <3>2. \A i \in 1..n : Rows(w, t)[i].cat = Rows(w, s)[i].cat
      <4> DEFINE rt == Rows(w, t)
                 rs == Rows(w, s)
      <4>1. [i \in DOMAIN rt |-> <<rt[i].key, rt[i].cat>>] = [i \in DOMAIN rs |-> <<rs[i].key, rs[i].cat>>]
        BY <2>1, <2>3, Zenon DEF Schema
      <4>2. rt \in Seq(SnapshotRow) /\ rs \in Seq(SnapshotRow)
        BY <2>2, RowsTyped
      <4>3. Len(rt) = n /\ Len(rs) = n
        BY <2>1, <2>4
      <4> HIDE DEF rt, rs
      <4>4. DOMAIN rt = 1..n /\ DOMAIN rs = 1..n
        BY <4>2, <4>3
      <4>5. \A i \in 1..n : <<rt[i].key, rt[i].cat>> = <<rs[i].key, rs[i].cat>>
        <5> HIDE DEF n
        <5> DEFINE ft == [i \in 1..n |-> <<rt[i].key, rt[i].cat>>]
                   fs == [i \in 1..n |-> <<rs[i].key, rs[i].cat>>]
        <5>1. ft = fs
          BY <4>1, <4>4
        <5>2. \A i \in 1..n : ft[i] = <<rt[i].key, rt[i].cat>> /\ fs[i] = <<rs[i].key, rs[i].cat>>
          OBVIOUS
        <5> HIDE DEF ft, fs
        <5> QED BY <5>1, <5>2
      <4> QED BY <4>5 DEF rt, rs
    <3>3. /\ SectionStart(w, t, w.selected) <=> SectionStart(w, s, w.selected)
          /\ StartOf(w, t, w.selected) = StartOf(w, s, w.selected)
          /\ Hidden(w, t, w.selected) <=> Hidden(w, s, w.selected)
      <4>0. w.selected \in 1..n
        BY <1>a, <1>r, <2>1, <3>1
      <4>1. ASSUME NEW i \in 1..n
            PROVE  /\ SectionStart(w, t, i) <=> SectionStart(w, s, i)
                   /\ \A j \in 1..i : (j = 1 \/ Rows(w, t)[j].cat # Rows(w, t)[j - 1].cat)
                                        <=> (j = 1 \/ Rows(w, s)[j].cat # Rows(w, s)[j - 1].cat)
        <5> HIDE DEF n
        <5>1. \A j \in 1..n : j = 1 \/ j - 1 \in 1..n
          BY <1>r
        <5>2. \A j \in 1..i : j \in 1..n
          BY <1>r
        <5> QED BY <3>2, <5>1, <5>2 DEF SectionStart
      <4>2. ASSUME NEW i \in 1..n PROVE StartOf(w, t, i) = StartOf(w, s, i)
        <5>1. {j \in 1..i : j = 1 \/ Rows(w, t)[j].cat # Rows(w, t)[j - 1].cat}
              = {j \in 1..i : j = 1 \/ Rows(w, s)[j].cat # Rows(w, s)[j - 1].cat}
          BY <4>1
        <5> QED BY <5>1, Zenon DEF StartOf
      <4>3. StartOf(w, s, w.selected) \in 1..n
        <5> HIDE DEF n
        <5>1. StartOf(w, s, w.selected) \in 1..w.selected
          BY <1>a, <2>1, StartIs
        <5> QED BY <1>r, <4>0, <5>1
      <4> DEFINE j == StartOf(w, s, w.selected)
      <4>4. StartOf(w, t, w.selected) = j /\ (SectionStart(w, t, j) <=> SectionStart(w, s, j))
        BY <4>0, <4>1, <4>2, <4>3
      <4>5. Hidden(w, t, w.selected) <=> Hidden(w, s, w.selected)
        BY <4>4, Zenon DEF Hidden
      <4> QED BY <4>0, <4>1, <4>2, <4>5
    <3>4. b = w
      BY <1>7, <2>1, <3>1
    <3>5. c = w
      <4>1. CASE w.section
        BY <1>8, <2>6, <3>1, <3>3, <3>4, <4>1
      <4>2. CASE ~w.section
        <5>1. c = b
          <6>1. ~(r # <<>> /\ b.section /\ ~SectionStart(b, s, b.selected))
            BY <3>4, <4>2
          <6> QED BY <1>b, <6>1, Zenon DEF OnHeading, c
        <5> QED BY <3>4, <5>1
      <4> QED BY <4>1, <4>2
    <3>6. x.selected = w.selected /\ x.section = w.section
      BY <1>9, <2>6, <3>1, <3>3, <3>5 DEF h
    <3> QED BY <1>10, <2>1, <3>6 DEF Placed
  <2> QED BY <2>5, <2>6
<1>13. Does(w, x)
  <2>1. IsView(x) /\ Typed(x) /\ x.page = a.page /\ x.schema = a.schema /\ x.dirty = a.dirty /\ x.full = a.full
        /\ x.editing = a.editing /\ x.act = a.act
    BY <1>10
  <2>2. Asked(w, a)
    BY <1>1 DEF Does
  <2>3. Asked(w, x)
    BY <1>12, <2>1, <2>2 DEF Asked
  <2> QED BY <2>1, <2>3 DEF Does
<1>14. x.act = w.act
  BY <1>1, <1>10
<1> QED BY <1>0, <1>11, <1>13, <1>14

\* A view in line with a snapshot is steady on it and ready for a key.
LEMMA SyncedReady ==
  ASSUME NEW w, IsView(w), Typed(w), NEW s, Published(s),
         ~w.dirty => \E t : Published(t) /\ Steady(w, t)
  PROVE  LET y == Synced(w, s) IN Does(w, y) /\ Ready(y, s) /\ Steady(y, s) /\ y.act = None
<1> DEFINE u == [w EXCEPT !.act = None]
           x == SyncSections(u, s)
           y == IF ChoiceHolds(x, s) THEN x ELSE Cancel(x)
<1>0. Synced(w, s) = y
  BY Zenon DEF Synced, ValidateChoice
<1>1. Does(w, u)
  BY MarkDoes
<1>2. u.act = None /\ (u.dirty <=> w.dirty) /\ SamePlace(w, u)
  BY DEF IsView, ViewFields, SamePlace
<1> HIDE DEF u
<1>3. ~u.dirty => \E t : Published(t) /\ Steady(u, t)
  BY <1>2, SteadySame
<1>4. Does(u, x) /\ Steady(x, s) /\ x.act = None
  <2>1. Does(u, x) /\ Steady(x, s) /\ x.act = u.act
    BY <1>1, <1>3, SyncSectionsDoes DEF Does
  <2> QED BY <1>2, <2>1
<1> HIDE DEF x
<1>5. ASSUME NEW z, IsView(z), Typed(z), Steady(z, s), z.act = None, ChoiceHolds(z, s)
      PROVE  Ready(z, s)
  <2>1. Idle(z)
    BY <1>5 DEF Idle, None
  <2>2. z.schema[z.page] = Schema(z, s)
    BY <1>5 DEF Steady
  <2>3. HasRow(z, s) => ~Hidden(z, s, z.selected)
    <3>1. Hidden(z, s, z.selected) /\ Rows(z, s) # <<>> => z.section = TRUE
      BY <1>5 DEF Steady
    <3>2. z.selected <= Len(Rows(z, s)) => Rows(z, s) # <<>>
      <4>1. z.selected \in Nat \ {0}
        BY <1>5 DEF Typed
      <4>2. Len(<<>>) = 0
        OBVIOUS
      <4> QED BY <4>1, <4>2
    <3> QED BY <3>1, <3>2, Zenon DEF HasRow
  <2> QED BY <1>5, <2>1, <2>2, <2>3 DEF Ready
<1>6. /\ Does(x, Cancel(x)) /\ SamePlace(x, Cancel(x)) /\ Cancel(x).act = None /\ ChoiceHolds(Cancel(x), s)
  <2>1. IsView(x) /\ Typed(x)
    BY <1>4 DEF Does
  <2> DEFINE c == Cancel(x)
  <2>2. Does(x, c)
    BY <2>1, DirtyDoes
  <2>3. /\ c.page = x.page /\ c.selected = x.selected /\ c.section = x.section /\ c.act = x.act
        /\ c.closed = x.closed /\ c.schema = x.schema /\ c.menu = FALSE
    BY <2>1 DEF IsView, Cancel, ClearDraft, Repaint, ViewFields
  <2> HIDE DEF c
  <2>4. ChoiceHolds(c, s)
    BY <2>3 DEF ChoiceHolds
  <2>5. SamePlace(x, c)
    BY <2>3 DEF SamePlace
  <2> QED BY <1>4, <2>2, <2>3, <2>4, <2>5 DEF c
<1>7. Does(x, y) /\ Steady(y, s) /\ y.act = None /\ ChoiceHolds(y, s)
  <2>1. CASE ChoiceHolds(x, s)
    <3>1. y = x
      BY <2>1
    <3> HIDE DEF y
    <3>2. Does(x, x)
      BY <1>4, DoesSame DEF Does
    <3> QED BY <1>4, <2>1, <3>1, <3>2
  <2>2. CASE ~ChoiceHolds(x, s)
    <3>1. y = Cancel(x)
      BY <2>2
    <3> HIDE DEF y
    <3>2. Steady(Cancel(x), s)
      BY <1>4, <1>6, SteadySame
    <3> QED BY <1>6, <3>1, <3>2
  <2> QED BY <2>1, <2>2
<1> HIDE DEF y
<1>8. Ready(y, s)
  BY <1>5, <1>7 DEF Does
<1>9. Does(w, y)
  BY <1>1, <1>4, <1>7, DoesTwice
<1> QED BY <1>0, <1>7, <1>8, <1>9

LEMMA FedFine ==
  ASSUME NEW x, Ready(x, snap), Published(snap), NEW b \in Keystrokes \union Finals, NEW d \in Drafts,
         v.esc = 2 => b \in Finals
  PROVE  Fine(x, Fed(x, b, d), snap)
<1> DEFINE y == IF b \in {"cr", "lf"} THEN x ELSE [x EXCEPT !.cr = FALSE]
           n == IF b = "bracket" THEN 2 ELSE 0
           e0 == [y EXCEPT !.esc = 0]
<1>0. Fed(x, b, d) = IF ChoiceGone THEN x
                     ELSE IF x.cr /\ b = "lf" THEN [x EXCEPT !.cr = FALSE]
                     ELSE IF v.esc = 1 /\ b \in ArrowLetters THEN Arrow(e0, snap, b)
                     ELSE IF v.esc = 1 THEN [y EXCEPT !.esc = n]
                     ELSE IF v.esc = 2 THEN Final(e0, snap, b, d)
                     ELSE Plain(y, snap, b, d)
  BY Zenon DEF Fed
<1>1. Fine(x, x, snap)
  BY ReadyFine
<1>2. Fine(x, [x EXCEPT !.cr = FALSE], snap)
  BY MarkReady, TameFine
<1>3. Ready(y, snap) /\ Tame(x, y)
  BY MarkReady, ReadyFine
<1>4. n \in 0..2
  OBVIOUS
<1> HIDE DEF y, n
<1>5. Fine(x, [y EXCEPT !.esc = n], snap)
  <2>1. Tame(y, [y EXCEPT !.esc = n])
    BY <1>3, <1>4, MarkReady
  <2> QED BY <1>3, <2>1, TameTwice, TameFine DEF Tame
<1>6. Ready(e0, snap) /\ Does(x, e0)
  <2>1. 0 \in 0..2
    OBVIOUS
  <2>2. Ready(e0, snap) /\ Tame(y, e0)
    BY <1>3, <2>1, MarkReady
  <2> QED BY <1>3, <2>2, DoesTwice DEF Tame
<1> HIDE DEF e0
<1>7. v.esc = 2 => Fine(x, Final(e0, snap, b, d), snap)
  BY <1>6, FinalFine, FineAfter
<1>8. v.esc # 2 => Fine(x, Plain(y, snap, b, d), snap)
  <2>1. Does(x, y)
    BY <1>3 DEF Tame
  <2> QED BY <1>3, <2>1, PlainFine, FineAfter
<1>a. b \in ArrowLetters => Fine(x, Arrow(e0, snap, b), snap)
  <2>1. b \in ArrowLetters => b \in ArrowKeys
    BY DEF ArrowLetters, ArrowKeys
  <2> QED BY <1>6, <2>1, ArrowFine, FineAfter
<1>9. \/ Fed(x, b, d) = x \/ Fed(x, b, d) = [x EXCEPT !.cr = FALSE] \/ Fed(x, b, d) = [y EXCEPT !.esc = n]
      \/ b \in ArrowLetters /\ Fed(x, b, d) = Arrow(e0, snap, b)
      \/ v.esc = 2 /\ Fed(x, b, d) = Final(e0, snap, b, d)
      \/ v.esc # 2 /\ Fed(x, b, d) = Plain(y, snap, b, d)
  BY <1>0, Zenon
<1> QED BY <1>1, <1>2, <1>5, <1>7, <1>8, <1>9, <1>a, Zenon

-----------------------------------------------------------------------------
(* The device view: what is on the screen.                                  *)

\* Sequences of rows, one after another, are as many as the first at least.
LEMMA FlatSome ==
  ASSUME NEW Z, NEW n \in Nat, n # 0, NEW s \in Seq(Seq(Z)), Len(s) = n, s[1] # <<>>
  PROVE  FlattenSeq(s) # <<>>
<1> DEFINE f == CHOOSE f : Appended(s, n, f)
<1>1. Appended(s, n, f)
  BY AppendedExists
<1>2. FlattenSeq(s) = f[n]
  BY DEF FlattenSeq, Appended
<1> HIDE DEF f
<1>3. \A i \in 1..n : f[i] = IF i = 1 THEN s[i] ELSE f[i - 1] \o s[i]
  BY <1>1 DEF Appended
<1>4. \A i \in 1..n : s[i] \in Seq(Z)
  OBVIOUS
<1> DEFINE G == {k \in Nat : k \in 1..n => f[k] \in Seq(Z) /\ f[k] # <<>>}
<1>5. ASSUME NEW k \in G PROVE k + 1 \in G
  <2>1. SUFFICES ASSUME k + 1 \in 1..n PROVE f[k + 1] \in Seq(Z) /\ f[k + 1] # <<>>
    OBVIOUS
  <2>2. k = 0 \/ (k \in 1..n /\ f[k] \in Seq(Z) /\ f[k] # <<>> /\ k + 1 # 1 /\ (k + 1) - 1 = k)
    BY <1>5, <2>1
  <2>3. s[k + 1] \in Seq(Z)
    BY <1>4, <2>1
  <2>4. CASE k = 0
    <3>1. k + 1 = 1
      BY <2>4
    <3>2. f[k + 1] = s[k + 1]
      BY <1>3, <2>1, <3>1
    <3> QED BY <3>1, <3>2, <2>3
  <2>5. CASE k # 0
    <3>1. f[k + 1] = f[k] \o s[k + 1]
      BY <1>3, <2>1, <2>2, <2>5
    <3>2. \A a, b \in Seq(Z) : a \o b \in Seq(Z) /\ (a # <<>> => a \o b # <<>>)
      <4>1. ASSUME NEW a \in Seq(Z), NEW b \in Seq(Z) PROVE a \o b \in Seq(Z) /\ Len(a \o b) = Len(a) + Len(b)
        OBVIOUS
      <4>2. ASSUME NEW a \in Seq(Z), a # <<>> PROVE Len(a) > 0
        BY <4>2
      <4>3. ASSUME NEW a \in Seq(Z), NEW b \in Seq(Z), a # <<>> PROVE a \o b # <<>>
        <5>1. Len(a) \in Nat /\ Len(b) \in Nat /\ Len(a) > 0
          BY <4>2, <4>3
        <5>2. Len(a \o b) > 0
          BY <4>1, <5>1
        <5>3. Len(<<>>) = 0
          OBVIOUS
        <5> QED BY <5>2, <5>3
      <4> QED BY <4>1, <4>3
    <3> QED BY <2>2, <2>3, <2>5, <3>1, <3>2
  <2> QED BY <2>4, <2>5
<1>6. 0 \in G /\ G \in SUBSET Nat
  OBVIOUS
<1>7. n \in G
  <2> HIDE DEF G
  <2> QED BY <1>5, <1>6, Counted
<1> QED BY <1>2, <1>7

\* There is a line for some row exactly when there is a row.
LEMMA ItemsSome ==
  ASSUME NEW w, Typed(w), NEW s, Published(s)
  PROVE  (SectionItems(w, s) = <<>>) <=> (Rows(w, s) = <<>>)
<1> DEFINE r == Rows(w, s)
           Z == LineSet(w, s)
           head(i) == IF SectionStart(w, s, i) THEN <<[head |-> TRUE, at |-> i]>> ELSE <<>>
           row(i) == IF Hidden(w, s, i) THEN <<>> ELSE <<[head |-> FALSE, at |-> i]>>
           f == [i \in DOMAIN r |-> head(i) \o row(i)]
           n == Len(r)
<1>1. SectionItems(w, s) = FlattenSeq(f)
  BY Zenon DEF SectionItems
<1>2. DOMAIN r = 1..n /\ n \in Nat /\ (r = <<>> <=> n = 0)
  <2>1. r \in Seq(SnapshotRow)
    BY RowsTyped
  <2> HIDE DEF r
  <2> QED BY <2>1
<1>3. CASE n = 0
  <2>1. f = <<>>
    BY <1>2, <1>3
  <2> HIDE DEF f
  <2>2. FlattenSeq(f) = <<>>
    BY <2>1 DEF FlattenSeq
  <2> QED BY <1>1, <1>2, <1>3, <2>2
<1>4. CASE n # 0
  <2>1. head(1) \o row(1) # <<>>
    <3>1. StartOf(w, s, 1) = 1
      BY StartIs
    <3>2. SectionStart(w, s, 1) \/ ~Hidden(w, s, 1)
      BY <3>1, Zenon DEF Hidden
    <3> DEFINE a == [head |-> TRUE, at |-> 1]
               b == [head |-> FALSE, at |-> 1]
    <3> HIDE DEF a, b
    <3>3. <<a>> \o <<b>> # <<>> /\ <<a>> \o <<>> # <<>> /\ <<>> \o <<b>> # <<>>
      OBVIOUS
    <3> QED BY <3>2, <3>3 DEF a, b
  <2>2. ASSUME NEW i \in 1..n PROVE head(i) \o row(i) \in Seq([head : BOOLEAN, at : Nat])
    <3> DEFINE T == [head : BOOLEAN, at : Nat]
               a == [head |-> TRUE, at |-> i]
               b == [head |-> FALSE, at |-> i]
    <3>1. a \in T /\ b \in T
      BY <1>2
    <3> HIDE DEF a, b, T
    <3>2. <<a>> \in Seq(T) /\ <<b>> \in Seq(T) /\ <<>> \in Seq(T)
      BY <3>1
    <3>3. head(i) \in Seq(T) /\ row(i) \in Seq(T)
      BY <3>2 DEF a, b
    <3> HIDE DEF head, row
    <3>4. \A x, y \in Seq(T) : x \o y \in Seq(T)
      OBVIOUS
    <3> QED BY <3>3, <3>4 DEF T
  <2> HIDE DEF head, row, r
  <2> DEFINE T == [head : BOOLEAN, at : Nat]
  <2> HIDE DEF T
  <2>3. f \in Seq(Seq(T)) /\ Len(f) = n /\ f[1] = head(1) \o row(1)
    <3> HIDE DEF n
    <3> QED BY <1>2, <1>4, <2>2 DEF T
  <2> HIDE DEF f, n
  <2>4. FlattenSeq(f) # <<>>
    BY <1>2, <1>4, <2>1, <2>3, FlatSome
  <2> QED BY <1>1, <1>2, <1>4, <2>4 DEF r, n
<1> QED BY <1>3, <1>4

LEMMA FocusPositive ==
  ASSUME NEW w, NEW s, NEW Z, SectionItems(w, s) \in Seq(Z)
  PROVE  Focus(w, s) \in Nat \ {0}
<1> DEFINE items == SectionItems(w, s)
           n == Len(items)
           I == {i \in 1..n : items[i] = [head |-> w.section, at |-> w.selected]}
           r == IF I # {} THEN Max(I) ELSE 0
<1>1. CASE items # <<>>
  <2>1. Focus(w, s) \in 1..n
    BY <1>1, FocusIn
  <2>2. n \in Nat
    OBVIOUS
  <2> QED BY <2>1, <2>2
<1>2. CASE items = <<>>
  <2>1. Focus(w, s) = Max({1, r})
    BY Zenon DEF Focus, SelectLastInSeq
  <2>2. I = {}
    BY <1>2
  <2>3. r = 0
    BY <2>2
  <2> HIDE DEF r
  <2>4. Max({1, r}) = 1
    BY <2>3, MaxOfTwo
  <2> QED BY <2>1, <2>4
<1> QED BY <1>1, <1>2

\* The window has a line for each it shows, where there are rows.
LEMMA LinesAre ==
  ASSUME NEW w, Typed(w), NEW s, Published(s)
  PROVE  LET l == Lines(w, s) IN
         /\ l.items \in Seq(LineSet(w, s)) /\ l.items = SectionItems(w, s)
         /\ l.shown \in Nat /\ l.shown <= TableLines /\ l.start \in Nat \ {0}
         /\ Rows(w, s) # <<>> => \A i \in 1..TableLines : i <= l.shown => l.start + i - 1 \in 1..Len(l.items)
         /\ Rows(w, s) = <<>> => \A i \in 1..TableLines : ~(l.start + i - 1 <= Len(l.items))
<1> DEFINE items == SectionItems(w, s)
           f == Focus(w, s)
           n == Len(items)
           m == Max({1, n})
           k == Min({TableLines, m})
           l == Lines(w, s)
<1>1. items \in Seq(LineSet(w, s)) /\ TableLines \in Nat /\ n \in Nat
  BY ItemsIn, ViewAssumption
<1>2. f \in Nat \ {0}
  BY <1>1, FocusPositive
<1>3. (items = <<>>) <=> (Rows(w, s) = <<>>)
  BY ItemsSome
<1>4. items # <<>> => f \in 1..n
  BY <1>1, FocusIn
<1>5. (items = <<>>) <=> n = 0
  BY <1>1
<1>6. l = [start |-> IF f > k THEN f - k + 1 ELSE 1, shown |-> k, items |-> items]
  BY DEF Lines, LinesOf, Window
<1> HIDE DEF n, f, items, l
<1>7. m \in Nat /\ m = IF 1 >= n THEN 1 ELSE n
  BY <1>1, MaxOfTwo
<1> HIDE DEF m
<1>8. k \in Nat /\ k = IF TableLines <= m THEN TableLines ELSE m
  BY <1>1, <1>7, MinOfTwo
<1> HIDE DEF k
<1>9. l.items = items /\ l.shown = k /\ l.start = IF f > k THEN f - k + 1 ELSE 1
  BY <1>6
<1>10. k <= TableLines /\ l.start \in Nat \ {0}
  BY <1>1, <1>2, <1>7, <1>8, <1>9
<1>11. ASSUME n # 0, NEW i \in 1..TableLines, i <= k PROVE l.start + i - 1 \in 1..n
  <2>1. f \in 1..n /\ k <= n
    BY <1>1, <1>4, <1>5, <1>7, <1>8, <1>11
  <2>2. i \in Nat /\ i >= 1
    BY <1>1
  <2> QED BY <1>1, <1>8, <1>9, <1>11, <2>1, <2>2, SMTT(30)
<1>12. ASSUME n = 0, NEW i \in 1..TableLines PROVE ~(l.start + i - 1 <= n)
  BY <1>1, <1>10, <1>12
<1>13. l.items \in Seq(LineSet(w, s)) /\ Len(l.items) = n
  BY <1>1, <1>9 DEF items, n
<1>14. l.items = SectionItems(w, s)
  BY <1>9 DEF items
<1>15. l.shown \in Nat /\ l.shown <= TableLines /\ l.start \in Nat \ {0}
  BY <1>8, <1>9, <1>10
<1>16. Rows(w, s) # <<>> => \A i \in 1..TableLines : i <= l.shown => l.start + i - 1 \in 1..Len(l.items)
  BY <1>3, <1>5, <1>9, <1>11, <1>13
<1>17. Rows(w, s) = <<>> => \A i \in 1..TableLines : ~(l.start + i - 1 <= Len(l.items))
  BY <1>3, <1>5, <1>12, <1>13
<1> QED BY <1>13, <1>14, <1>15, <1>16, <1>17 DEF l

\* What the window reads of a view and a snapshot.
LEMMA ItemsSame ==
  ASSUME NEW w, NEW s, NEW x, NEW t, DOMAIN Rows(w, s) = DOMAIN Rows(x, t),
         \A i \in DOMAIN Rows(w, s) : /\ SectionStart(w, s, i) <=> SectionStart(x, t, i)
                                      /\ Hidden(w, s, i) <=> Hidden(x, t, i)
  PROVE  SectionItems(w, s) = SectionItems(x, t)
<1> DEFINE of(y, u, i) == (IF SectionStart(y, u, i) THEN <<[head |-> TRUE, at |-> i]>> ELSE <<>>)
                          \o (IF Hidden(y, u, i) THEN <<>> ELSE <<[head |-> FALSE, at |-> i]>>)
           f == [i \in DOMAIN Rows(w, s) |-> of(w, s, i)]
           g == [i \in DOMAIN Rows(x, t) |-> of(x, t, i)]
<1>1. SectionItems(w, s) = FlattenSeq(f) /\ SectionItems(x, t) = FlattenSeq(g)
  BY Zenon DEF SectionItems
<1>2. \A i \in DOMAIN Rows(w, s) : of(w, s, i) = of(x, t, i)
  OBVIOUS
<1> HIDE DEF of
<1>3. f = g
  BY <1>2
<1> HIDE DEF f, g
<1> QED BY <1>1, <1>3
LEMMA LinesSame ==
  ASSUME NEW w, NEW s, NEW x, NEW t, SectionItems(w, s) = SectionItems(x, t),
         w.section = x.section, w.selected = x.selected
  PROVE  Lines(w, s) = Lines(x, t)
<1> DEFINE I(y, items) == {i \in 1..Len(items) : items[i] = [head |-> y.section, at |-> y.selected]}
<1>1. \A y, u : Focus(y, u) = Max({1, IF I(y, SectionItems(y, u)) # {} THEN Max(I(y, SectionItems(y, u))) ELSE 0})
  BY Zenon DEF Focus, SelectLastInSeq
<1>2. I(w, SectionItems(w, s)) = I(x, SectionItems(x, t))
  OBVIOUS
<1> HIDE DEF I
<1>3. Focus(w, s) = Focus(x, t)
  BY <1>1, <1>2
<1> QED BY <1>3 DEF Lines

LEMMA PlaceLines ==
  ASSUME NEW w, NEW x, SamePlace(w, x), w.grid = x.grid, NEW s
  PROVE  /\ Lines(x, s) = Lines(w, s) /\ Hash(x, s) = Hash(w, s)
         /\ \A item : Stamp(x, s, item) = Stamp(w, s, item)
<1>1. /\ x.page = w.page /\ x.selected = w.selected /\ x.section = w.section
      /\ x.closed = w.closed /\ x.schema = w.schema
  BY DEF SamePlace
<1>2. /\ Rows(x, s) = Rows(w, s)
      /\ \A i : SectionStart(x, s, i) <=> SectionStart(w, s, i)
      /\ \A i : Hidden(x, s, i) <=> Hidden(w, s, i)
  BY <1>1, PlaceReads
<1>3. SectionItems(x, s) = SectionItems(w, s)
  BY <1>2, ItemsSame
<1>4. Lines(x, s) = Lines(w, s)
  BY <1>1, <1>3, LinesSame
<1>5. Hash(x, s) = Hash(w, s)
  BY <1>2, Zenon DEF Hash
<1>6. \A item : Stamp(x, s, item) = Stamp(w, s, item)
  BY <1>1, <1>2, Zenon DEF Stamp
<1> QED BY <1>4, <1>5, <1>6

\* Rows of the same categories have the same sections.
LEMMA SectionsSame ==
  ASSUME NEW w, NEW s, NEW t, NEW n \in Nat,
         \A i \in 1..n : Rows(w, t)[i].cat = Rows(w, s)[i].cat
  PROVE  \A i \in 1..n : /\ SectionStart(w, t, i) <=> SectionStart(w, s, i)
                         /\ Hidden(w, t, i) <=> Hidden(w, s, i)
<1>1. ASSUME NEW i \in 1..n
      PROVE  /\ SectionStart(w, t, i) <=> SectionStart(w, s, i)
             /\ \A j \in 1..i : (j = 1 \/ Rows(w, t)[j].cat # Rows(w, t)[j - 1].cat)
                                  <=> (j = 1 \/ Rows(w, s)[j].cat # Rows(w, s)[j - 1].cat)
  <2>1. \A j \in 1..n : j = 1 \/ j - 1 \in 1..n
    OBVIOUS
  <2>2. \A j \in 1..i : j \in 1..n
    OBVIOUS
  <2> QED BY <2>1, <2>2 DEF SectionStart
<1>2. ASSUME NEW i \in 1..n PROVE StartOf(w, t, i) = StartOf(w, s, i)
  <2>1. {j \in 1..i : j = 1 \/ Rows(w, t)[j].cat # Rows(w, t)[j - 1].cat}
        = {j \in 1..i : j = 1 \/ Rows(w, s)[j].cat # Rows(w, s)[j - 1].cat}
    BY <1>1
  <2> QED BY <2>1, Zenon DEF StartOf
<1>3. ASSUME NEW i \in 1..n PROVE Hidden(w, t, i) <=> Hidden(w, s, i)
  <2>1. StartOf(w, s, i) \in 1..n
    <3>1. i \in Nat \ {0} /\ \A j \in 1..i : j \in 1..n
      OBVIOUS
    <3> QED BY <3>1, StartIs
  <2> DEFINE j == StartOf(w, s, i)
  <2>2. StartOf(w, t, i) = j /\ (SectionStart(w, t, j) <=> SectionStart(w, s, j))
    BY <1>1, <1>2, <2>1
  <2> QED BY <2>2, Zenon DEF Hidden
<1> QED BY <1>1, <1>3

\* Snapshots with one hash are painted alike.
LEMMA HashLines ==
  ASSUME NEW w, Typed(w), NEW s, NEW t, Published(s), Published(t), Hash(w, s) = Hash(w, t)
  PROVE  /\ Lines(w, s) = Lines(w, t)
         /\ \A item : item.at \in DOMAIN Rows(w, s) => Stamp(w, s, item) = Stamp(w, t, item)
<1> DEFINE rs == Rows(w, s)
           rt == Rows(w, t)
           n == Len(rs)
           fs == [i \in DOMAIN rs |-> Face(rs[i])]
           ft == [i \in DOMAIN rt |-> Face(rt[i])]
<1>1. rs \in Seq(SnapshotRow) /\ rt \in Seq(SnapshotRow)
  BY RowsTyped
<1>2. fs = ft
  BY Zenon DEF Hash
<1> HIDE DEF rs, rt
<1>3. DOMAIN rs = 1..n /\ DOMAIN rt = DOMAIN rs /\ n \in Nat
  <2>1. DOMAIN fs = DOMAIN rs /\ DOMAIN ft = DOMAIN rt
    OBVIOUS
  <2> QED BY <1>1, <1>2, <2>1
<1>4. \A i \in DOMAIN rs : Face(rs[i]) = Face(rt[i])
  <2>1. \A i \in DOMAIN rs : fs[i] = Face(rs[i]) /\ ft[i] = Face(rt[i])
    BY <1>3
  <2> HIDE DEF fs, ft
  <2> QED BY <1>2, <2>1
<1> HIDE DEF fs, ft, n
<1>5. \A i \in 1..n : rs[i] \in SnapshotRow /\ rt[i] \in SnapshotRow
  BY <1>1, <1>3
<1>6. \A r \in SnapshotRow : Face(r).cat = r.cat
  BY DEF Face, SnapshotRow
<1>7. \A i \in 1..n : rt[i].cat = rs[i].cat
  BY <1>3, <1>4, <1>5, <1>6
<1>8. \A i \in 1..n : /\ SectionStart(w, t, i) <=> SectionStart(w, s, i)
                      /\ Hidden(w, t, i) <=> Hidden(w, s, i)
  BY <1>3, <1>7, SectionsSame DEF rs, rt
<1>9. SectionItems(w, s) = SectionItems(w, t)
  BY <1>3, <1>8, ItemsSame DEF rs, rt
<1>10. Lines(w, s) = Lines(w, t)
  BY <1>9, LinesSame
<1>11. ASSUME NEW item, item.at \in DOMAIN rs PROVE Stamp(w, s, item) = Stamp(w, t, item)
  <2>1. Face(rs[item.at]) = Face(rt[item.at])
    BY <1>4, <1>11
  <2> QED BY <2>1, Zenon DEF Stamp, rs, rt
<1> QED BY <1>10, <1>11 DEF rs

\* The table shows the lines of a view that has no draft open.
LineIs(w, s, pen, l, i) == IF Holds(l, i) THEN Look(Stamp(w, s, ItemAt(l, i)), pen) ELSE Blank
Depicts(w, s, pen, z) ==
  /\ z.start = Lines(w, s).start /\ z.shown = Lines(w, s).shown
  /\ \A i \in 1..TableLines : z.line[i] = LineIs(w, s, pen, Lines(w, s), i)
\* What it painted last is what it shows.
Keeps(some, pen, z) ==
  \A i \in 1..TableLines : z.line[i] = IF i <= z.shown /\ some THEN Look(z.stamp[i], pen) ELSE Blank
\* One pen wrote all that is on the screen, and it was one for rows.
Solo(z, pen) == z.pens = {pen} /\ pen.rows
Retained(w, z) == \A pen : Solo(z, pen) => Keeps(w.schema[w.page] # <<>>, pen, z)
\* The view is one whose table is on the screen.
Seen(w, z) == w.active /\ ~w.full /\ ~w.editing /\ ~z.small
ScreenFields == {"line", "stamp", "start", "shown", "selected", "grid", "gutter", "hash", "small", "pens"}
IsScreen(z) ==
  /\ DOMAIN z = ScreenFields /\ z.pens # {}
  /\ z.start \in Nat \ {0} /\ z.shown \in Nat /\ z.shown <= TableLines

LEMMA DepictsPlace ==
  ASSUME NEW w, NEW x, SamePlace(w, x), w.grid = x.grid, NEW s, NEW pen, NEW z, Depicts(w, s, pen, z)
  PROVE  Depicts(x, s, pen, z)
<1>1. Lines(x, s) = Lines(w, s) /\ \A item : Stamp(x, s, item) = Stamp(w, s, item)
  BY PlaceLines
<1>2. \A l, i : LineIs(x, s, pen, l, i) = LineIs(w, s, pen, l, i)
  BY <1>1, Zenon DEF LineIs
<1> QED BY <1>1, <1>2 DEF Depicts

LEMMA HeldRow ==
  ASSUME NEW w, Typed(w), NEW s, Published(s), NEW i \in 1..TableLines, Holds(Lines(w, s), i)
  PROVE  ItemAt(Lines(w, s), i).at \in DOMAIN Rows(w, s)
<1> DEFINE l == Lines(w, s)
           r == Rows(w, s)
           k == l.start + i - 1
<1>1. l.items \in Seq(LineSet(w, s)) /\ l.start \in Nat \ {0} /\ k <= Len(l.items) /\ TableLines \in Nat
  BY LinesAre, ViewAssumption DEF Holds
<1> HIDE DEF l
<1>2. k \in 1..Len(l.items)
  BY <1>1
<1>3. l.items[k] \in LineSet(w, s)
  BY <1>1, <1>2
<1>4. l.items[k].at \in 1..Len(r)
  BY <1>3 DEF LineSet
<1>5. DOMAIN r = 1..Len(r)
  BY RowsTyped
<1> QED BY <1>4, <1>5 DEF ItemAt, l

LEMMA DepictsHash ==
  ASSUME NEW w, Typed(w), NEW s, NEW t, Published(s), Published(t), Hash(w, s) = Hash(w, t),
         NEW pen, NEW z, Depicts(w, s, pen, z)
  PROVE  Depicts(w, t, pen, z)
<1> DEFINE l == Lines(w, s)
<1>1. l = Lines(w, t) /\ \A item : item.at \in DOMAIN Rows(w, s) => Stamp(w, s, item) = Stamp(w, t, item)
  BY HashLines
<1>2. \A i \in 1..TableLines : Holds(l, i) => ItemAt(l, i).at \in DOMAIN Rows(w, s)
  BY HeldRow
<1>3. z.start = l.start /\ z.shown = l.shown /\ \A i \in 1..TableLines : z.line[i] = LineIs(w, s, pen, l, i)
  BY DEF Depicts
<1> HIDE DEF l
<1>4. \A i \in 1..TableLines : LineIs(w, s, pen, l, i) = LineIs(w, t, pen, l, i)
  BY <1>1, <1>2 DEF LineIs
<1> QED BY <1>1, <1>3, <1>4 DEF Depicts

\* The rows of a page, and what was known of them.
LEMMA SchemaSome ==
  ASSUME NEW w, Typed(w), NEW s, Published(s)
  PROVE  (Schema(w, s) # <<>>) <=> (Rows(w, s) # <<>>)
<1> DEFINE r == Rows(w, s)
           n == Len(r)
<1>1. r \in Seq(SnapshotRow)
  BY RowsTyped
<1>2. Schema(w, s) = [i \in DOMAIN r |-> <<r[i].key, r[i].cat>>]
  BY Zenon DEF Schema
<1> HIDE DEF r
<1>3. DOMAIN r = 1..n /\ n \in Nat /\ (r = <<>> <=> n = 0)
  BY <1>1
<1>4. DOMAIN Schema(w, s) = 1..n
  BY <1>2, <1>3
<1>5. n = 0 => Schema(w, s) = <<>>
  BY <1>2, <1>3
<1>6. n # 0 => Schema(w, s) # <<>>
  BY <1>3, <1>4
<1> QED BY <1>3, <1>5, <1>6 DEF r

\* A painting of the rows shows the lines of the view, whether or not it paints them all.
LEMMA PaintsTable ==
  ASSUME NEW w, Typed(w), Published(snap), IsScreen(screen), ~snap.small, ~w.editing,
         ~w.full => \A pen : Solo(screen, pen) => Keeps(Rows(w, snap) # <<>>, pen, screen),
         NEW pen, Solo(Paint(w, snap), pen)
  PROVE  LET z == Paint(w, snap) IN
         Depicts(w, snap, pen, z) /\ Keeps(Rows(w, snap) # <<>>, pen, z)
<1> DEFINE l == Lines(w, snap)
           some == Rows(w, snap) # <<>>
           line == [i \in 1..TableLines |-> PaintLine(w, snap, l, i)]
           was == screen.stamp
           stamp == [i \in 1..TableLines |-> IF Holds(l, i) THEN Stamp(w, snap, ItemAt(l, i)) ELSE was[i]]
           z == PaintLines(w, snap, l)
           pens == Pens(w, snap, l)
<1>0. Paint(w, snap) = z
  BY DEF Paint
<1>1. /\ l.shown \in Nat /\ l.shown <= TableLines /\ l.start \in Nat \ {0}
      /\ some => \A i \in 1..TableLines : i <= l.shown => l.start + i - 1 \in 1..Len(l.items)
      /\ ~some => \A i \in 1..TableLines : ~(l.start + i - 1 <= Len(l.items))
  BY LinesAre
<1>a. Len(l.items) \in Nat
  BY LinesAre
<1> HIDE DEF some, l
<1> HIDE DEF line, stamp, z, pens
\* The page of cells has a pen of its own.
<1>2. z = [screen EXCEPT !.line = line, !.stamp = stamp, !.start = l.start, !.shown = l.shown,
                         !.selected = w.selected, !.grid = w.grid, !.gutter = Gutter(l), !.pens = pens]
  <2>1. \/ z = [screen EXCEPT !.line = MatrixCells, !.pens = {OtherPen}, !.gutter = Gutter(l)]
        \/ z = [screen EXCEPT !.line = line, !.stamp = stamp, !.start = l.start, !.shown = l.shown,
                              !.selected = w.selected, !.grid = w.grid, !.gutter = Gutter(l), !.pens = pens]
    BY Zenon DEF PaintLines, z, line, stamp, pens
  <2>2. ASSUME z = [screen EXCEPT !.line = MatrixCells, !.pens = {OtherPen}, !.gutter = Gutter(l)] PROVE FALSE
    <3>1. z.pens = {OtherPen}
      BY <2>2 DEF IsScreen, ScreenFields
    <3>2. pen = OtherPen /\ pen.rows
      BY <1>0, <3>1 DEF Solo
    <3> QED BY <3>2 DEF OtherPen
  <2> QED BY <2>1, <2>2
<1>3. z.line = line /\ z.stamp = stamp /\ z.start = l.start /\ z.shown = l.shown /\ z.pens = pens
  BY <1>2 DEF IsScreen, ScreenFields
<1>4. pen = RowPen(w, snap) /\ (~PaintsAll(w, l) => Solo(screen, pen))
  <2>1. pens = {pen} /\ pen.rows
    BY <1>0, <1>3 DEF Solo
  <2> DEFINE mine == RowPen(w, snap)
  <2>2. pens = IF PaintsAll(w, l) THEN {mine} ELSE screen.pens \union {mine}
    BY Zenon DEF Pens, pens
  <2> HIDE DEF mine
  <2>3. pen = mine
    BY <2>1, <2>2
  <2>4. ~PaintsAll(w, l) => screen.pens = {pen}
    BY <2>1, <2>2 DEF IsScreen
  <2> QED BY <2>1, <2>3, <2>4 DEF Solo, mine
<1>5. ASSUME NEW i \in 1..TableLines PROVE Holds(l, i) <=> (i <= l.shown /\ some)
  <2>1. CASE some
    <3>1. i <= l.shown => l.start + i - 1 \in 1..Len(l.items)
      BY <1>1, <2>1
    <3>2. i <= l.shown => l.start + i - 1 <= Len(l.items)
      BY <1>a, <3>1
    <3> QED BY <2>1, <3>2 DEF Holds
  <2>2. CASE ~some
    BY <1>1, <2>2 DEF Holds
  <2> QED BY <2>1, <2>2
<1>6. ASSUME NEW i \in 1..TableLines
      PROVE  line[i] = LineIs(w, snap, pen, l, i) /\ (Holds(l, i) => Look(stamp[i], pen) = line[i])
  <2> DEFINE m == ItemAt(l, i)
             all == PaintsAll(w, l)
             again == \/ all \/ Moves(w, m) \/ screen.grid # w.grid \/ screen.stamp[i] # Stamp(w, snap, m)
  <2>1. line[i] = PaintLine(w, snap, l, i)
    BY DEF line
  <2>2. PaintLine(w, snap, l, i) =
          IF w.editing /\ w.dialog THEN Overlay(w)
          ELSE IF ~Holds(l, i) THEN IF all \/ i <= l.shown THEN Blank ELSE Cleared(w, l)[i]
          ELSE IF again THEN Content(w, snap, m) ELSE Cleared(w, l)[i]
    BY Zenon DEF PaintLine
  <2>3. Content(w, snap, m) = Look(Stamp(w, snap, m), pen)
    BY <1>4, Zenon DEF Content
  <2>4. ~all => ~w.full /\ Cleared(w, l) = screen.line /\ l.shown = screen.shown
    BY Zenon DEF PaintsAll, Cleared
  <2>5. ~all => screen.line[i] = IF i <= l.shown /\ some THEN Look(screen.stamp[i], pen) ELSE Blank
    BY <1>4, <2>4 DEF Keeps, some
  <2>6. Holds(l, i) <=> (i <= l.shown /\ some)
    BY <1>5
  <2>7. ~again => ~all /\ screen.stamp[i] = Stamp(w, snap, m)
    OBVIOUS
  <2> HIDE DEF all, again, m
  <2>8. CASE Holds(l, i)
    <3>1. line[i] = Look(Stamp(w, snap, m), pen)
      BY <2>1, <2>2, <2>3, <2>4, <2>5, <2>6, <2>7, <2>8
    <3>2. stamp[i] = Stamp(w, snap, m)
      BY <2>8 DEF stamp, m
    <3> QED BY <2>8, <3>1, <3>2 DEF LineIs, m
  <2>9. CASE ~Holds(l, i)
    <3>1. line[i] = Blank
      BY <2>1, <2>2, <2>4, <2>5, <2>6, <2>9
    <3> QED BY <2>9, <3>1 DEF LineIs
  <2> QED BY <2>8, <2>9
<1>7. Depicts(w, snap, pen, z)
  BY <1>3, <1>6 DEF Depicts, l
<1>8. Keeps(some, pen, z)
  <2>1. ASSUME NEW i \in 1..TableLines
        PROVE  z.line[i] = IF i <= z.shown /\ some THEN Look(z.stamp[i], pen) ELSE Blank
    <3>1. CASE Holds(l, i)
      BY <1>3, <1>5, <1>6, <3>1
    <3>2. CASE ~Holds(l, i)
      BY <1>3, <1>5, <1>6, <3>2 DEF LineIs
    <3> QED BY <3>1, <3>2
  <2> QED BY <2>1 DEF Keeps
<1> QED BY <1>0, <1>7, <1>8 DEF some

\* What the view asks for is allowed, and unless a painting is due it is where the rows
\* painted last let it be, and those are what is on the screen.
Painted(w, z) == \E s : /\ Published(s) /\ Steady(w, s)
                        /\ Seen(w, z) => Hash(w, s) = z.hash /\ \A pen : Solo(z, pen) => Depicts(w, s, pen, z)
Sound(w, z) ==
  /\ IsView(w) /\ Typed(w) /\ IsScreen(z)
  /\ ~w.dirty => Painted(w, z)
  /\ Seen(w, z) => Retained(w, z)
ViewSound == snap \in Snapshots /\ Sound(v, screen) /\ Allowed(v, snap)

\* A step that asks for what it changes.
LEMMA SoundStep ==
  ASSUME NEW w, NEW x, NEW z, Sound(w, z), Does(w, x), x.active => w.active
  PROVE  Sound(x, z)
<1>1. IsView(x) /\ Typed(x) /\ Asked(w, x) /\ IsView(w)
  BY DEF Does, Sound
<1>2. Seen(x, z) => Seen(w, z) /\ x.page = w.page /\ x.schema = w.schema
  BY <1>1 DEF Seen, Asked
<1>3. Seen(x, z) => Retained(x, z)
  BY <1>2, Zenon DEF Sound, Retained
<1>4. ASSUME ~x.dirty PROVE Painted(x, z)
  <2>1. ~w.dirty /\ SamePlace(w, x) /\ w.grid = x.grid
    BY <1>1, <1>4 DEF Asked, Placed, SamePlace
  <2>2. PICK s : /\ Published(s) /\ Steady(w, s)
                 /\ Seen(w, z) => Hash(w, s) = z.hash /\ \A pen : Solo(z, pen) => Depicts(w, s, pen, z)
    BY <2>1 DEF Sound, Painted
  <2>3. Steady(x, s)
    BY <2>1, <2>2, SteadySame
  <2>4. Hash(x, s) = Hash(w, s)
    BY <2>1, PlaceLines
  <2>5. Seen(x, z) => Hash(x, s) = z.hash /\ \A pen : Solo(z, pen) => Depicts(x, s, pen, z)
    BY <1>2, <2>1, <2>2, <2>4, DepictsPlace
  <2> QED BY <2>2, <2>3, <2>5 DEF Painted
<1> QED BY <1>1, <1>3, <1>4 DEF Sound

\* A view that is to be painted anew.
LEMMA SoundAnew ==
  ASSUME NEW x, IsView(x), Typed(x), x.dirty, x.full, NEW z, IsScreen(z)
  PROVE  Sound(x, z)
BY DEF Sound, Seen

LEMMA SyncedSound ==
  ASSUME ViewSound
  PROVE  LET y == Synced(v, snap) IN
         Does(v, y) /\ Ready(y, snap) /\ Steady(y, snap) /\ y.act = None /\ Published(snap)
<1>1. IsView(v) /\ Typed(v) /\ Published(snap)
  BY SnapshotsPublished DEF ViewSound, Sound
<1>2. ~v.dirty => \E t : Published(t) /\ Steady(v, t)
  BY DEF ViewSound, Sound, Painted
<1> QED BY <1>1, <1>2, SyncedReady

\* The keys and the mouse.
LEMMA FedActive ==
  ASSUME ViewSound, NEW y, Fine(Synced(v, snap), y, snap), v.active, v' = y, UNCHANGED <<snap, screen>>
  PROVE  ViewSound'
<1> DEFINE x == Synced(v, snap)
<1>1. Does(v, x) /\ Published(snap)
  BY SyncedSound
<1> HIDE DEF x
<1>2. Does(v, y) /\ Allowed(y, snap)
  BY <1>1, DoesTwice DEF Fine, x
<1>3. Sound(y, screen)
  BY <1>2, SoundStep DEF ViewSound
<1> QED BY <1>2, <1>3 DEF ViewSound

LEMMA FeedSound == ASSUME ViewSound, NEW b \in Keystrokes \union Finals, NEW d \in Drafts, Feed(b, d) PROVE ViewSound'
<1> DEFINE x == Synced(v, snap)
<1>1. Ready(x, snap) /\ Published(snap)
  BY SyncedSound
<1>2. v.active /\ (v.esc = 2 => b \in Finals) /\ v' = Fed(x, b, d) /\ UNCHANGED <<snap, screen>>
  BY DEF Feed
<1> HIDE DEF x
<1>3. Fine(x, Fed(x, b, d), snap)
  BY <1>1, <1>2, FedFine
<1> QED BY <1>2, <1>3, FedActive DEF x

LEMMA MouseSound == ASSUME ViewSound, NEW e \in Reports, Mouse(e) PROVE ViewSound'
<1> DEFINE x == Synced(v, snap)
           y == [x EXCEPT !.cr = FALSE]
           u == [y EXCEPT !.esc = 0]
<1>1. Ready(x, snap) /\ Published(snap)
  BY SyncedSound
<1>2. /\ v.active /\ UNCHANGED <<snap, screen>>
      /\ \/ v' = x
         \/ v' \in Pointed([x EXCEPT !.cr = FALSE, !.esc = 0], snap, e)
  BY Zenon DEF Mouse
<1> HIDE DEF x
<1>3. [x EXCEPT !.cr = FALSE, !.esc = 0] = u
  BY <1>1 DEF Ready, IsView, ViewFields
<1>4. Ready(y, snap) /\ Tame(x, y)
  BY <1>1, MarkReady
<1> HIDE DEF y
<1>5. Ready(u, snap) /\ Tame(y, u)
  <2>1. 0 \in 0..2
    OBVIOUS
  <2> QED BY <1>4, <2>1, MarkReady
<1> HIDE DEF u
<1>6. Does(x, u)
  BY <1>4, <1>5, DoesTwice DEF Tame
<1>7. ReportsAre(e) /\ screen.start \in Nat \ {0}
  BY ReportsTyped DEF ViewSound, Sound, IsScreen
<1>8. \A z \in Pointed(u, snap, e) : Fine(x, z, snap)
  BY <1>1, <1>5, <1>6, <1>7, PointedFine, FineAfter
<1>9. Fine(x, x, snap)
  BY <1>1, ReadyFine
<1>10. Fine(x, v', snap)
  BY <1>2, <1>3, <1>8, <1>9
<1> QED BY <1>2, <1>10, FedActive DEF x

LEMMA FlushSound == ASSUME ViewSound, FlushEscape PROVE ViewSound'
<1> DEFINE a == [v EXCEPT !.esc = 0]
           w == [a EXCEPT !.act = None]
           b == [w EXCEPT !.active = FALSE]
           e == [type |-> "exit"]
           c == [b EXCEPT !.act = e]
<1>1. IsView(v) /\ Typed(v)
  BY DEF ViewSound, Sound
<1>2. [v EXCEPT !.esc = 0, !.act = None] = w
  BY <1>1 DEF IsView, ViewFields
<1>3. Does(v, a) /\ (a.active <=> v.active)
  <2>1. 0 \in 0..2
    OBVIOUS
  <2>2. a.active <=> v.active
    BY <1>1 DEF IsView, ViewFields
  <2> QED BY <1>1, <2>1, <2>2, MarkDoes
<1> HIDE DEF a
<1>4. Does(v, w) /\ (w.active <=> v.active) /\ w.act = None
  <2>1. IsView(a) /\ Typed(a)
    BY <1>3 DEF Does
  <2>2. Does(a, w)
    BY <2>1, MarkDoes
  <2>3. (w.active <=> a.active) /\ w.act = None
    BY <2>1 DEF IsView, ViewFields
  <2> QED BY <1>3, <2>2, <2>3, DoesTwice
<1>5. v' = IF w.editing THEN Cancel(w) ELSE IF w.active THEN [w EXCEPT !.active = FALSE, !.act = e] ELSE w
  BY <1>2, Zenon DEF FlushEscape
<1> HIDE DEF w
<1>6. IsView(w) /\ Typed(w)
  BY <1>4 DEF Does
<1>7. [w EXCEPT !.active = FALSE, !.act = e] = c
  BY <1>6 DEF IsView, ViewFields
<1>8. Does(w, b) /\ b.active = FALSE
  <2>1. b.active = FALSE
    BY <1>6 DEF IsView, ViewFields
  <2> QED BY <1>6, <2>1, MarkDoes
<1> HIDE DEF b
<1>9. Does(w, c) /\ c.active = FALSE /\ c.act = e
  <2>1. IsView(b) /\ Typed(b)
    BY <1>8 DEF Does
  <2>2. c.active = b.active /\ c.act = e
    BY <2>1 DEF IsView, ViewFields
  <2>3. Does(b, c)
    BY <2>1, MarkDoes
  <2> QED BY <1>8, <2>2, <2>3, DoesTwice
<1> HIDE DEF c
<1>10. Does(w, Cancel(w)) /\ (Cancel(w).active <=> w.active) /\ Cancel(w).act = None /\ Does(w, w)
  <2>1. Cancel(w).active <=> w.active
    BY <1>6 DEF Cancel, ClearDraft, Repaint, IsView, ViewFields
  <2> QED BY <1>4, <1>6, <2>1, DirtyDoes, QuietKept, DoesSame
<1>11. Does(w, v') /\ (v'.active => w.active) /\ v'.act \in {None, e}
  BY <1>4, <1>5, <1>7, <1>9, <1>10
<1>12. Does(v, v') /\ (v'.active => v.active)
  BY <1>4, <1>11, DoesTwice
<1>13. Allowed(v', snap)
  <2>1. Idle(v')
    BY <1>11 DEF Idle, None
  <2> QED BY <2>1, IdleAllowed
<1>14. UNCHANGED <<snap, screen>>
  BY DEF FlushEscape
<1>15. Sound(v', screen)
  BY <1>12, SoundStep DEF ViewSound
<1> QED BY <1>13, <1>14, <1>15 DEF ViewSound

\* The provider and the host.
LEMMA QuietAllowed == \A w, s : w.act = None => Allowed(w, s)
BY IdleAllowed DEF Idle, None

LEMMA HostSound == ASSUME ViewSound, Provide \/ BeginView \/ EndView \/ Restyle PROVE ViewSound'
<1>1. IsView(v) /\ Typed(v) /\ snap \in Snapshots /\ Sound(v, screen) /\ IsScreen(screen)
  BY DEF ViewSound, Sound
<1> DEFINE u == [v EXCEPT !.act = None]
<1>2. Does(v, u) /\ u.act = None /\ (u.active <=> v.active)
  <2>1. u.act = None /\ (u.active <=> v.active)
    BY <1>1 DEF IsView, ViewFields
  <2> QED BY <1>1, <2>1, MarkDoes
<1>3. CASE Provide
  <2>1. v' = u /\ snap' \in Snapshots /\ screen' = screen
    BY <1>3 DEF Provide
  <2> HIDE DEF u
  <2>2. Sound(u, screen)
    BY <1>1, <1>2, SoundStep
  <2> QED BY <1>2, <2>1, <2>2, QuietAllowed DEF ViewSound
<1>4. CASE BeginView
  <2> DEFINE w == Fresh(v.closed, v.schema)
  <2>1. v' = w /\ UNCHANGED <<snap, screen>>
    BY <1>4 DEF BeginView
  <2>2. w.dirty /\ w.full /\ w.act = None /\ w.closed = v.closed /\ w.schema = v.schema
    BY DEF Fresh
  <2>3. w.page = "device" /\ w.selected = 1 /\ w.esc = 0 /\ w.focus = "draft" /\ w.draft = "" /\ w.pixel = 0 /\ w.choice = 1
    BY DEF Fresh
  <2>4. IsView(w)
    BY FreshView
  <2> HIDE DEF w
  <2>5. Typed(w)
    <3>1. w.page \in PageSet
      BY <2>3, PageSetIs
    <3>2. Folded(w.closed, w.schema)
      BY <1>1, <2>2 DEF Typed
    <3>0. 1 \in Nat \ {0} /\ 0 \in 0..2 /\ 0 \in Nat
      OBVIOUS
    <3>3. w.selected \in Nat \ {0} /\ w.esc \in 0..2 /\ w.pixel \in Nat /\ w.choice \in Nat \ {0}
      BY <2>3, <3>0, Zenon
    <3>4. w.focus \in {"draft", "apply", "cancel"}
      BY <2>3
    <3>5. w.draft # "" => w.draft \in Words
      BY <2>3, Zenon
    <3> QED BY <3>1, <3>2, <3>3, <3>4, <3>5, Zenon DEF Typed
  <2>6. Sound(w, screen)
    BY <1>1, <2>2, <2>4, <2>5, SoundAnew
  <2> QED BY <1>1, <2>1, <2>2, <2>6, QuietAllowed DEF ViewSound
<1>5. CASE EndView
  <2> DEFINE w == [ClearDraft(v) EXCEPT !.active = FALSE, !.drag = FALSE, !.act = None]
  <2>1. v' = w /\ UNCHANGED <<snap, screen>>
    BY <1>5 DEF EndView
  <2>2. /\ IsView(w) /\ w.active = FALSE /\ w.act = None /\ (w.dirty <=> v.dirty)
        /\ w.page = v.page /\ w.selected = v.selected /\ w.section = v.section
        /\ w.closed = v.closed /\ w.schema = v.schema
    BY <1>1 DEF IsView, ClearDraft, ViewFields
  <2>3. w.esc = v.esc /\ w.pixel = v.pixel /\ w.focus = "draft" /\ w.draft = "" /\ w.choice = 1
    BY <1>1 DEF IsView, ClearDraft, ViewFields
  <2> HIDE DEF w
  <2>4. Typed(w)
    <3>0. 1 \in Nat \ {0}
      OBVIOUS
    <3>1. w.choice \in Nat \ {0}
      BY <2>3, <3>0, Zenon
    <3>2. w.focus \in {"draft", "apply", "cancel"}
      BY <2>3
    <3>3. w.draft # "" => w.draft \in Words
      BY <2>3, Zenon
    <3> QED BY <1>1, <2>2, <2>3, <3>1, <3>2, <3>3, Zenon DEF Typed
  <2>5. ~Seen(w, screen)
    BY <2>2 DEF Seen
  <2>6. ~w.dirty => Painted(w, screen)
    <3>1. SamePlace(v, w)
      BY <2>2 DEF SamePlace
    <3>2. ~v.dirty => \E s : Published(s) /\ Steady(v, s)
      BY <1>1 DEF Sound, Painted
    <3> QED BY <2>2, <2>5, <3>1, <3>2, SteadySame DEF Painted
  <2>7. Sound(w, screen)
    BY <1>1, <2>2, <2>4, <2>5, <2>6 DEF Sound
  <2> QED BY <1>1, <2>1, <2>2, <2>7, QuietAllowed DEF ViewSound
<1>6. CASE Restyle
  <2> DEFINE r == Repaint(v)
             w == [r EXCEPT !.act = None]
  <2>1. v' = w /\ UNCHANGED <<snap, screen>>
    BY <1>6 DEF Restyle
  <2>2. Does(v, r) /\ (r.active <=> v.active)
    <3>1. r.active <=> v.active
      BY <1>1 DEF Repaint, IsView, ViewFields
    <3> QED BY <1>1, <3>1, DirtyDoes
  <2> HIDE DEF r
  <2>3. Does(r, w) /\ w.act = None /\ (w.active <=> r.active)
    <3>1. IsView(r) /\ Typed(r)
      BY <2>2 DEF Does
    <3>2. w.act = None /\ (w.active <=> r.active)
      BY <3>1 DEF IsView, ViewFields
    <3> QED BY <3>1, <3>2, MarkDoes
  <2> HIDE DEF w
  <2>4. Sound(w, screen)
    BY <1>1, <2>2, <2>3, DoesTwice, SoundStep
  <2> QED BY <1>1, <2>1, <2>3, <2>4, QuietAllowed DEF ViewSound
<1> QED BY <1>3, <1>4, <1>5, <1>6

LEMMA WithHashIs ==
  ASSUME NEW p, IsScreen(p), NEW w
  PROVE  LET z == WithHash(p, w) IN
         /\ IsScreen(z) /\ z.hash = NewHash(w) /\ z.small = snap.small
         /\ z.line = p.line /\ z.stamp = p.stamp /\ z.start = p.start /\ z.shown = p.shown
         /\ z.pens = p.pens
BY DEF WithHash, IsScreen, ScreenFields
LEMMA WithHashDepicts ==
  ASSUME NEW p, NEW z, z.line = p.line, z.stamp = p.stamp, z.start = p.start, z.shown = p.shown
  PROVE  /\ \A w, s, pen : Depicts(w, s, pen, p) => Depicts(w, s, pen, z)
         /\ \A some, pen : Keeps(some, pen, p) => Keeps(some, pen, z)
BY DEF Depicts, Keeps

\* What render() finds of the view, and of the screen it was painted on.
Found(w, y) ==
  /\ Does(w, y) /\ Steady(y, snap) /\ y.act = None
  /\ (screen.small <=> snap.small) \/ (y.full /\ y.dirty)
  /\ y.editing \/ screen.hash = Hash(y, snap) \/ y.dirty
LEMMA RenderFinds ==
  ASSUME ViewSound
  PROVE  LET y == Noticed(Resized(Synced([v EXCEPT !.act = None], snap))) IN
         Found(v, y) /\ (y.active => v.active)
<1> DEFINE u == [v EXCEPT !.act = None]
           x == Synced(u, snap)
           r == Resized(x)
           y == Noticed(r)
<1>1. IsView(v) /\ Typed(v) /\ Published(snap)
  BY SnapshotsPublished DEF ViewSound, Sound
<1>2. Does(v, u) /\ SamePlace(v, u) /\ (u.dirty <=> v.dirty) /\ (u.active <=> v.active)
  <2>1. SamePlace(v, u) /\ (u.dirty <=> v.dirty) /\ (u.active <=> v.active)
    BY <1>1 DEF IsView, ViewFields, SamePlace
  <2> QED BY <1>1, <2>1, MarkDoes
<1>3. ~v.dirty => \E t : Published(t) /\ Steady(v, t)
  BY DEF ViewSound, Sound, Painted
<1> HIDE DEF u
<1>4. Does(u, x) /\ Steady(x, snap) /\ x.act = None
  <2>1. ~u.dirty => \E t : Published(t) /\ Steady(u, t)
    BY <1>2, <1>3, SteadySame
  <2> QED BY <1>1, <1>2, <2>1, SyncedReady DEF Does
<1>5. x.active <=> u.active
  BY <1>2, SyncedHeld DEF Does, Held
<1> HIDE DEF x
<1>6. ASSUME NEW z, IsView(z), Typed(z)
      PROVE  /\ Does(z, Repaint(z)) /\ SamePlace(z, Repaint(z)) /\ Repaint(z).act = z.act
             /\ Repaint(z).full /\ Repaint(z).dirty /\ (Repaint(z).active <=> z.active)
             /\ Does(z, Dirty(z)) /\ SamePlace(z, Dirty(z)) /\ Dirty(z).act = z.act
             /\ Dirty(z).dirty /\ (Dirty(z).full <=> z.full) /\ (Dirty(z).active <=> z.active)
             /\ Does(z, z) /\ SamePlace(z, z)
  <2>1. Does(z, Repaint(z)) /\ Does(z, Dirty(z)) /\ Does(z, z)
    BY <1>6, DirtyDoes, DoesSame
  <2>2. /\ SamePlace(z, Repaint(z)) /\ Repaint(z).act = z.act
        /\ Repaint(z).full /\ Repaint(z).dirty /\ (Repaint(z).active <=> z.active)
    BY <1>6 DEF IsView, ViewFields, Repaint, SamePlace
  <2>3. /\ SamePlace(z, Dirty(z)) /\ Dirty(z).act = z.act
        /\ Dirty(z).dirty /\ (Dirty(z).full <=> z.full) /\ (Dirty(z).active <=> z.active)
    BY <1>6 DEF IsView, ViewFields, Dirty, SamePlace
  <2> QED BY <2>1, <2>2, <2>3 DEF SamePlace
<1>7. /\ Does(x, r) /\ SamePlace(x, r) /\ r.act = None /\ (r.active <=> x.active)
      /\ (screen.small <=> snap.small) \/ (r.full /\ r.dirty)
  <2>1. IsView(x) /\ Typed(x)
    BY <1>4 DEF Does
  <2>2. (screen.small = snap.small /\ r = x) \/ r = Repaint(x)
    BY Zenon DEF Resized
  <2> HIDE DEF r
  <2> QED BY <1>4, <1>6, <2>1, <2>2
<1> HIDE DEF r
<1>8. /\ Does(r, y) /\ SamePlace(r, y) /\ y.act = None /\ (y.active <=> r.active)
      /\ y.editing \/ screen.hash = Hash(r, snap) \/ y.dirty
      /\ (r.full => y.full) /\ (r.dirty => y.dirty)
  <2>1. IsView(r) /\ Typed(r)
    BY <1>7 DEF Does
  <2>2. ((r.editing \/ screen.hash = Hash(r, snap)) /\ y = r) \/ y = Dirty(r)
    BY Zenon DEF Noticed
  <2> HIDE DEF y
  <2> QED BY <1>6, <1>7, <2>1, <2>2
<1> HIDE DEF y
<1>9. Does(v, y)
  BY <1>2, <1>4, <1>7, <1>8, DoesTwice
<1>10. Steady(y, snap)
  BY <1>4, <1>7, <1>8, SteadySame
<1>11. Hash(y, snap) = Hash(r, snap)
  <2>1. Rows(y, snap) = Rows(r, snap)
    BY <1>8 DEF Rows, SamePlace
  <2> QED BY <2>1, Zenon DEF Hash
<1>12. Found(v, y)
  BY <1>7, <1>8, <1>9, <1>10, <1>11 DEF Found
<1>13. y.active => v.active
  BY <1>2, <1>5, <1>7, <1>8
<1> QED BY <1>12, <1>13 DEF y, r, x, u

\* A painting: the mark that one is due goes, and the whole screen stays due for a menu.
Cleaned(y, q) ==
  /\ IsView(q) /\ Typed(q) /\ q.act = None /\ SamePlace(y, q) /\ q.grid = y.grid
  /\ (q.editing <=> y.editing) /\ (q.active <=> y.active)
LEMMA CleanedIs ==
  ASSUME NEW y, IsView(y), Typed(y), y.act = None, NEW f
  PROVE  /\ Cleaned(y, [y EXCEPT !.dirty = FALSE, !.full = f])
         /\ [y EXCEPT !.dirty = FALSE, !.full = f].dirty = FALSE
         /\ [y EXCEPT !.dirty = FALSE, !.full = f].full = f
         /\ Cleaned(y, [y EXCEPT !.full = f]) /\ [y EXCEPT !.full = f].full = f
         /\ [y EXCEPT !.full = f].dirty = y.dirty
<1> DEFINE q == [y EXCEPT !.dirty = FALSE, !.full = f]
           p == [y EXCEPT !.full = f]
<1>1. /\ IsView(q) /\ q.act = None /\ SamePlace(y, q) /\ q.grid = y.grid
      /\ (q.editing <=> y.editing) /\ (q.active <=> y.active) /\ q.dirty = FALSE /\ q.full = f
      /\ q.esc = y.esc /\ q.focus = y.focus /\ q.draft = y.draft /\ q.pixel = y.pixel /\ q.choice = y.choice
  BY DEF IsView, ViewFields, SamePlace
<1>2. /\ IsView(p) /\ p.act = None /\ SamePlace(y, p) /\ p.grid = y.grid
      /\ (p.editing <=> y.editing) /\ (p.active <=> y.active) /\ p.dirty = y.dirty /\ p.full = f
      /\ p.esc = y.esc /\ p.focus = y.focus /\ p.draft = y.draft /\ p.pixel = y.pixel /\ p.choice = y.choice
  BY DEF IsView, ViewFields, SamePlace
<1> HIDE DEF q, p
<1>3. Typed(q)
  BY <1>1, Zenon DEF Typed, SamePlace
<1>4. Typed(p)
  BY <1>2, Zenon DEF Typed, SamePlace
<1> QED BY <1>1, <1>2, <1>3, <1>4 DEF Cleaned, q, p

LEMMA RenderSound == ASSUME ViewSound, NEW force, Render(force) PROVE ViewSound'
<1> DEFINE y == Noticed(Resized(Synced([v EXCEPT !.act = None], snap)))
           f == y.full \/ force
           q == [y EXCEPT !.dirty = FALSE, !.full = f]
           g == q.menu /\ q.editing /\ ~snap.small
           p == [q EXCEPT !.full = g]
<1>1. IsScreen(screen) /\ snap \in Snapshots /\ Published(snap) /\ snap' = snap /\ v.active
  BY SnapshotsPublished DEF ViewSound, Sound, Render
<1>2. Found(v, y)
  BY RenderFinds
<1>3. IsView(y) /\ Typed(y) /\ y.act = None
  BY <1>2 DEF Found, Does
<1>4. \/ ~y.dirty /\ v' = y /\ screen' = WithHash(screen, y)
      \/ q.editing /\ v' = q /\ screen' = WithHash(PaintDraft(q, snap), q)
      \/ v' = p /\ screen' = WithHash(Paint(q, snap), q)
  <2>1. [y EXCEPT !.dirty = FALSE, !.full = @ \/ force] = q
    BY <1>3 DEF IsView, ViewFields
  <2>2. Renders(y, force)
    BY Zenon DEF Render
  <2> HIDE DEF y, q
  <2>3. IF y.dirty \/ force THEN Draws(q) ELSE v' = y /\ screen' = WithHash(screen, y)
    BY <2>1, <2>2, Zenon DEF Renders
  <2> QED BY <2>3, Zenon DEF Draws
<1> HIDE DEF y, f
<1>5. Cleaned(y, q) /\ q.dirty = FALSE /\ q.full = f
  BY <1>3, CleanedIs, ZenonT(60)
<1> HIDE DEF q, g
<1>6. Cleaned(q, p) /\ p.full = g
  <2>1. IsView(q) /\ Typed(q) /\ q.act = None
    BY <1>5 DEF Cleaned
  <2> QED BY <2>1, CleanedIs
<1> HIDE DEF p
<1>s. Steady(q, snap) /\ Steady(p, snap) /\ Steady(y, snap)
  BY <1>2, <1>5, <1>6, SteadySame DEF Found, Cleaned
<1>a. \A w : w.act = None => Allowed(w, snap)
  BY QuietAllowed
<1>7. CASE ~y.dirty /\ v' = y /\ screen' = WithHash(screen, y)
  <2>1. IsScreen(screen') /\ screen'.hash = NewHash(y) /\ screen'.small = snap.small
        /\ screen'.line = screen.line /\ screen'.stamp = screen.stamp
        /\ screen'.start = screen.start /\ screen'.shown = screen.shown
        /\ \A pen : Solo(screen', pen) => Solo(screen, pen)
    BY <1>1, <1>7, WithHashIs DEF Solo
  <2>2. Asked(v, y) /\ Sound(y, screen)
    <3>1. Does(v, y)
      BY <1>2 DEF Found
    <3> QED BY <1>1, <3>1, SoundStep DEF ViewSound, Does
  <2>3. ASSUME Seen(y, screen')
        PROVE  Seen(y, screen) /\ screen'.hash = Hash(y, snap) /\ screen.hash = Hash(y, snap)
    <3>1. ~y.editing
      BY <2>3 DEF Seen
    <3>2. screen.hash = Hash(y, snap) /\ (screen.small <=> snap.small)
      BY <1>2, <1>7, <3>1 DEF Found
    <3> QED BY <2>1, <2>3, <3>1, <3>2 DEF Seen, NewHash
  <2>4. PICK s : /\ Published(s) /\ Steady(y, s)
                 /\ Seen(y, screen) => /\ Hash(y, s) = screen.hash
                                       /\ \A pen : Solo(screen, pen) => Depicts(y, s, pen, screen)
    BY <1>7, <2>2 DEF Sound, Painted
  <2>5. Seen(y, screen') => /\ Hash(y, s) = screen'.hash
                            /\ \A pen : Solo(screen', pen) => Depicts(y, s, pen, screen')
    BY <2>1, <2>3, <2>4, WithHashDepicts
  <2>6. Painted(y, screen')
    BY <2>4, <2>5 DEF Painted
  <2>7. Seen(y, screen') => Retained(y, screen')
    BY <2>1, <2>2, <2>3, WithHashDepicts DEF Sound, Retained
  <2>8. Sound(y, screen')
    BY <1>3, <2>1, <2>6, <2>7 DEF Sound
  <2> QED BY <1>1, <1>3, <1>7, <1>a, <2>8 DEF ViewSound
<1>8. CASE q.editing /\ v' = q /\ screen' = WithHash(PaintDraft(q, snap), q)
  <2>1. IsScreen(PaintDraft(q, snap))
    BY <1>1 DEF PaintDraft, IsScreen, ScreenFields
  <2>2. IsScreen(screen')
    BY <1>8, <2>1, WithHashIs
  <2>3. ~Seen(q, screen')
    BY <1>8 DEF Seen
  <2>4. Painted(q, screen')
    BY <1>1, <1>s, <2>3 DEF Painted
  <2>5. Sound(q, screen')
    BY <1>5, <2>2, <2>3, <2>4 DEF Sound, Cleaned
  <2> QED BY <1>1, <1>5, <1>8, <1>a, <2>5 DEF ViewSound, Cleaned
<1>9. CASE v' = p /\ screen' = WithHash(Paint(q, snap), q)
  <2> DEFINE z == Paint(q, snap)
             l == Lines(q, snap)
             some == Rows(q, snap) # <<>>
  <2>t. Typed(q) /\ Typed(p)
    BY <1>5, <1>6 DEF Cleaned
  <2>1. IsScreen(z)
    <3>1. l.shown \in Nat /\ l.shown <= TableLines /\ l.start \in Nat \ {0}
      BY <1>1, <2>t, LinesAre
    <3> HIDE DEF l
    <3>2. z = PaintLines(q, snap, l)
      BY DEF Paint, l
    <3> HIDE DEF z
    <3>3. \/ \E a : z = [screen EXCEPT !.line = a]
          \/ \E a, b, c : z = [screen EXCEPT !.line = a, !.pens = {b}, !.gutter = c]
          \/ \E a, b, c, d, e : z = [screen EXCEPT !.line = a, !.stamp = b, !.start = l.start, !.shown = l.shown,
                                                   !.selected = c, !.grid = d, !.gutter = e,
                                                   !.pens = Pens(q, snap, l)]
      BY <3>2, Zenon DEF PaintLines
    <3>4. Pens(q, snap, l) # {}
      <4>1. RowPen(q, snap) \in Pens(q, snap, l)
        BY Zenon DEF Pens
      <4> QED BY <4>1
    <3> QED BY <1>1, <3>1, <3>3, <3>4 DEF IsScreen, ScreenFields
  <2> HIDE DEF z
  <2>2. IsScreen(screen') /\ screen'.hash = NewHash(q) /\ screen'.small = snap.small
        /\ screen'.line = z.line /\ screen'.stamp = z.stamp
        /\ screen'.start = z.start /\ screen'.shown = z.shown /\ screen'.pens = z.pens
    BY <1>9, <2>1, WithHashIs DEF z
  <2>3. SamePlace(q, p) /\ q.grid = p.grid /\ (p.editing <=> q.editing) /\ p.act = None /\ IsView(p)
    BY <1>6 DEF Cleaned
  <2>4. ASSUME Seen(p, screen')
        PROVE  /\ Hash(p, snap) = screen'.hash /\ Retained(p, screen')
               /\ \A pen : Solo(screen', pen) => Depicts(p, snap, pen, screen')
    <3>1. ~snap.small /\ ~q.editing
      BY <2>2, <2>3, <2>4 DEF Seen
    <3>2. ~q.full => \A pen : Solo(screen, pen) => Keeps(some, pen, screen)
      <4> SUFFICES ASSUME ~q.full, NEW pen, Solo(screen, pen) PROVE Keeps(some, pen, screen)
        OBVIOUS
      <4>1. ~y.full /\ ~y.editing
        BY <1>5, <3>1 DEF f, Cleaned
      <4>2. Asked(v, y) /\ ~screen.small
        BY <1>2, <3>1, <4>1 DEF Found, Does
      <4>3. ~v.full /\ ~v.editing /\ y.page = v.page /\ y.schema = v.schema
        BY <4>1, <4>2 DEF Asked
      <4>4. Retained(v, screen)
        BY <1>1, <3>1, <4>2, <4>3 DEF ViewSound, Sound, Seen
      <4>5. q.schema[q.page] = v.schema[v.page]
        BY <1>5, <4>3 DEF Cleaned, SamePlace
      <4>6. (v.schema[v.page] # <<>>) <=> some
        <5>1. q.schema[q.page] = Schema(q, snap)
          BY <1>s DEF Steady
        <5> QED BY <1>1, <2>t, <4>5, <5>1, SchemaSome
      <4> HIDE DEF some
      <4> QED BY <4>4, <4>6 DEF Retained, Keeps
    <3>3. ASSUME NEW pen, Solo(screen', pen) PROVE Depicts(q, snap, pen, z) /\ Keeps(some, pen, z)
      <4>1. Solo(z, pen)
        BY <2>2, <3>3 DEF Solo
      <4> QED BY <1>1, <2>t, <3>1, <3>2, <4>1, PaintsTable DEF z
    <3>4. \A pen : Solo(screen', pen) => Depicts(q, snap, pen, screen') /\ Keeps(some, pen, screen')
      BY <2>2, <3>3, WithHashDepicts
    <3>5. Hash(p, snap) = Hash(q, snap) /\ \A pen : Solo(screen', pen) => Depicts(p, snap, pen, screen')
      BY <2>3, <3>4, DepictsPlace, PlaceLines
    <3>6. screen'.hash = Hash(q, snap)
      BY <2>2, <3>1, Zenon DEF NewHash
    <3>7. Retained(p, screen')
      <4>1. p.schema[p.page] = Schema(p, snap)
        BY <1>s DEF Steady
      <4>2. (p.schema[p.page] # <<>>) <=> (Rows(p, snap) # <<>>)
        BY <1>1, <2>t, <4>1, SchemaSome
      <4>3. Rows(p, snap) = Rows(q, snap)
        BY <2>3 DEF SamePlace, Rows
      <4> QED BY <3>4, <4>2, <4>3 DEF Retained, Keeps
    <3> QED BY <3>5, <3>6, <3>7
  <2>5. Painted(p, screen')
    BY <1>1, <1>s, <2>4 DEF Painted
  <2>6. Sound(p, screen')
    BY <2>t, <2>2, <2>3, <2>4, <2>5 DEF Sound
  <2> QED BY <1>1, <1>9, <1>a, <2>3, <2>6 DEF ViewSound
<1> QED BY <1>4, <1>7, <1>8, <1>9

\* Every step of the view keeps it so, whatever the provider publishes in between.
LEMMA ViewKeeps == ASSUME ViewSound, DeviceNext PROVE ViewSound'
<1>1. ASSUME NEW b \in Keystrokes \union Finals, NEW d \in Drafts, Feed(b, d) PROVE ViewSound'
  BY <1>1, FeedSound
<1>2. ASSUME NEW e \in Reports, Mouse(e) PROVE ViewSound'
  BY <1>2, MouseSound
<1>3. CASE FlushEscape
  BY <1>3, FlushSound
<1>4. ASSUME NEW force, Render(force) PROVE ViewSound'
  BY <1>4, RenderSound
<1>5. CASE Provide \/ BeginView \/ EndView \/ Restyle
  BY <1>5, HostSound
<1> QED BY <1>1, <1>2, <1>3, <1>4, <1>5 DEF DeviceNext

LEMMA ViewStarts == ASSUME DeviceInit PROVE ViewSound
<1> DEFINE closed == [p \in PageSet |-> {}]
           schema == [p \in PageSet |-> <<>>]
           w == Fresh(closed, schema)
<1>1. v = w /\ snap \in Snapshots
  BY DEF DeviceInit
<1>2. IsScreen(screen)
  <2>1. DOMAIN screen = ScreenFields /\ screen.start = 1 /\ screen.shown = 0 /\ screen.pens = {OtherPen}
    BY DEF DeviceInit, ScreenFields
  <2>2. TableLines \in Nat
    BY ViewAssumption
  <2> QED BY <2>1, <2>2 DEF IsScreen
<1>3. Folded(closed, schema)
  BY DEF Folded
<1> HIDE DEF closed, schema
<1>4. w.dirty /\ w.full /\ w.act = None /\ w.closed = closed /\ w.schema = schema
  BY DEF Fresh
<1>5. w.page = "device" /\ w.selected = 1 /\ w.esc = 0 /\ w.focus = "draft" /\ w.draft = "" /\ w.pixel = 0 /\ w.choice = 1
  BY DEF Fresh
<1>6. IsView(w)
  BY FreshView
<1> HIDE DEF w
<1>7. Typed(w)
  <2>0. 1 \in Nat \ {0} /\ 0 \in 0..2 /\ 0 \in Nat
    OBVIOUS
  <2>1. w.page \in PageSet
    BY <1>5, PageSetIs
  <2>2. w.selected \in Nat \ {0} /\ w.esc \in 0..2 /\ w.pixel \in Nat /\ w.choice \in Nat \ {0}
    BY <1>5, <2>0, Zenon
  <2>3. w.focus \in {"draft", "apply", "cancel"}
    BY <1>5
  <2>4. w.draft # "" => w.draft \in Words
    BY <1>5, Zenon
  <2> QED BY <1>3, <1>4, <2>1, <2>2, <2>3, <2>4, Zenon DEF Typed
<1>8. Sound(w, screen)
  BY <1>2, <1>4, <1>6, <1>7, SoundAnew
<1> QED BY <1>1, <1>4, <1>8, QuietAllowed DEF ViewSound

\* What a sound view means: its types, that it asks only for what may be asked, and that
\* it shows what there is when one pen has written it all.
LEMMA ViewMeans ==
  ASSUME ViewSound
  PROVE  DeviceTypeOK /\ RequestIsAllowed /\ ScreenIsCurrent
<1>1. IsView(v) /\ Typed(v) /\ IsScreen(screen) /\ snap \in Snapshots /\ Published(snap) /\ Allowed(v, snap)
  BY SnapshotsPublished DEF ViewSound, Sound
<1>2. DeviceTypeOK
  BY <1>1 DEF DeviceTypeOK, Typed, Words, Folded, IsScreen
<1>3. RequestIsAllowed
  BY <1>1, Zenon DEF Allowed, RequestIsAllowed
<1>4. ScreenIsCurrent
  <2>1. SUFFICES ASSUME screen.pens = {RowPen(v, snap)}, Settled
                 PROVE  LET l == Lines(v, snap) IN
                        /\ screen.start = l.start /\ screen.shown = l.shown
                        /\ \A i \in 1..TableLines :
                             screen.line[i] = IF i <= l.shown /\ l.start + i - 1 <= Len(l.items)
                                              THEN Content(v, snap, l.items[l.start + i - 1]) ELSE Blank
    BY Zenon DEF ScreenIsCurrent, LinesAreCurrent
  <2>2. v.active /\ ~v.dirty /\ ~v.full /\ ~v.editing /\ ~screen.small /\ screen.hash = Hash(v, snap)
    BY <2>1 DEF Settled
  <2>3. Seen(v, screen)
    BY <2>2 DEF Seen
  <2> DEFINE pen == RowPen(v, snap)
  <2>p. Solo(screen, pen)
    <3>1. pen.rows
      BY DEF RowPen
    <3> QED BY <2>1, <3>1 DEF Solo
  <2> HIDE DEF pen
  <2>4. PICK s : Published(s) /\ Hash(v, s) = screen.hash /\ Depicts(v, s, pen, screen)
    BY <2>2, <2>3, <2>p DEF ViewSound, Sound, Painted
  <2>5. Depicts(v, snap, pen, screen)
    BY <1>1, <2>2, <2>4, DepictsHash
  <2>6. \A item : Content(v, snap, item) = Look(Stamp(v, snap, item), pen)
    BY <2>2, Zenon DEF Content, pen
  <2> DEFINE l == Lines(v, snap)
  <2>7. \A i \in 1..TableLines :
          LineIs(v, snap, pen, l, i) = IF i <= l.shown /\ l.start + i - 1 <= Len(l.items)
                                  THEN Content(v, snap, l.items[l.start + i - 1]) ELSE Blank
    BY <2>6, Zenon DEF LineIs, Holds, ItemAt
  <2> HIDE DEF l
  <2>8. /\ screen.start = l.start /\ screen.shown = l.shown
        /\ \A i \in 1..TableLines : screen.line[i] = LineIs(v, snap, pen, l, i)
    BY <2>5 DEF Depicts, l
  <2> QED BY <2>7, <2>8 DEF l
<1> QED BY <1>2, <1>3, <1>4

-----------------------------------------------------------------------------
(* The composition.                                                         *)

\* The invariant of the part that is there.
ScreensGood ==
  /\ part \in Parts
  /\ part = "document" => DocGood /\ UndoGood
  /\ part = "hex" => HexGood /\ HexFine
  /\ part = "form" => FormGood
  /\ part = "files" => FilesGood
  /\ part = "menu" => MenuGood /\ MenuFine
  /\ part = "device" => DraftGood /\ ViewSound

\* What is unchanged stays good.
LEMMA GoodStays ==
  /\ DocGood /\ UNCHANGED docVars => DocGood'
  /\ UndoGood /\ UNCHANGED docVars => UndoGood'
  /\ HexGood /\ HexFine /\ UNCHANGED hexVars => HexGood' /\ HexFine'
  /\ FormGood /\ UNCHANGED formVars => FormGood'
  /\ FilesGood /\ UNCHANGED filesVars => FilesGood'
  /\ MenuGood /\ MenuFine /\ UNCHANGED menuVars => MenuGood' /\ MenuFine'
  /\ DraftGood /\ ViewSound /\ UNCHANGED viewVars => DraftGood' /\ ViewSound'
<1>1. DocGood /\ UNCHANGED docVars => DocGood'
  BY DEF docVars, DocGood
<1>2. UndoGood /\ UNCHANGED docVars => UndoGood'
  BY DEF docVars, UndoGood
<1>3. HexGood /\ UNCHANGED hexVars => HexGood'
  BY DEF hexVars, HexGood, HexIsHonest
<1>4. FilesGood /\ UNCHANGED filesVars => FilesGood'
  BY DEF filesVars, FilesGood
<1>5. MenuGood /\ UNCHANGED menuVars => MenuGood'
  BY DEF menuVars, MenuGood
<1>6. DraftGood /\ UNCHANGED viewVars => DraftGood'
  BY DEF viewVars, DraftGood
<1>7. HexFine /\ UNCHANGED hexVars => HexFine'
  BY DEF hexVars, HexFine, HexTypeOK
<1>8. FormGood /\ UNCHANGED formVars => FormGood'
  BY DEF formVars, FormGood
<1>9. MenuFine /\ UNCHANGED menuVars => MenuFine'
  BY DEF menuVars, MenuFine
<1>10. ViewSound /\ UNCHANGED viewVars => ViewSound'
  BY DEF viewVars, ViewSound
<1> QED BY <1>1, <1>2, <1>3, <1>4, <1>5, <1>6, <1>7, <1>8, <1>9, <1>10

LEMMA ScreensStart == ASSUME ScreensInit PROVE ScreensGood
<1>1. part = "document" => DocInit
  BY DEF ScreensInit
<1>2. DocInit => DocGood
  BY OpenedHonest DEF DocInit, DocGood
<1>3. part = "hex" => HexInit
  BY DEF ScreensInit
<1>4. part = "files" => FilesInit
  BY DEF ScreensInit
<1>5. part = "menu" => MenuInit
  BY DEF ScreensInit
<1>6. part = "device" => DeviceInit
  BY DEF ScreensInit
<1>7. DocInit => UndoGood
  BY UndoStarts
<1>8. (HexInit => HexGood) /\ (FilesInit => FilesGood) /\ (MenuInit => MenuGood) /\ (DeviceInit => DraftGood)
  BY HexStarts, FilesStart, MenuStarts, DeviceStarts
<1>9. (HexInit => HexFine) /\ (FormInit => FormGood) /\ (MenuInit => MenuFine) /\ (DeviceInit => ViewSound)
  BY HexStartsFine, FormStarts, MenuStartsFine, ViewStarts
<1>10. part \in Parts /\ (part = "form" => FormInit)
  BY DEF ScreensInit
<1> QED BY <1>1, <1>2, <1>3, <1>4, <1>5, <1>6, <1>7, <1>8, <1>9, <1>10 DEF ScreensGood

\* A step of the part that is there keeps its invariant, and acts on what was shown.
ActsSo ==
  CASE part = "document" -> UndoIsOneStep
    [] part = "files" -> PicksWhatIsShown
    [] part = "menu" -> RunsWhatIsShown /\ ParentIsRestored
    [] part = "device" -> DraftAppliesToSeen
    [] OTHER -> TRUE

LEMMA ScreensStep ==
  ASSUME ScreensGood, [ScreensNext]_screensVars
  PROVE  ScreensGood' /\ [ActsSo]_screensVars
<1>1. CASE UNCHANGED screensVars
  <2>1. part' = part /\ UNCHANGED docVars /\ UNCHANGED hexVars /\ UNCHANGED formVars
        /\ UNCHANGED filesVars /\ UNCHANGED menuVars /\ UNCHANGED viewVars
    BY <1>1 DEF screensVars
  <2>2. ScreensGood'
    BY <2>1, GoodStays DEF ScreensGood
  <2> QED BY <1>1, <2>2
<1>2. CASE ScreensNext
  <2>0. part' = part
    BY <1>2 DEF ScreensNext
  <2>1. CASE part = "document" /\ DocNext
    <3>1. DocGood' /\ UndoGood'
      BY <2>1, DocKeeps, UndoKeeps DEF ScreensGood
    <3>2. UndoIsOneStep
      BY <2>1, UndoGoodMeans DEF ScreensGood
    <3>3. ScreensGood'
      BY <2>0, <2>1, <3>1 DEF ScreensGood
    <3>4. ActsSo
      BY <2>1, <3>2 DEF ActsSo
    <3> QED BY <3>3, <3>4
  <2>2. CASE part = "hex" /\ HexNext
    <3>1. HexGood' /\ HexFine'
      BY <2>2, HexKeeps, HexKeepsFine DEF ScreensGood
    <3>2. ScreensGood'
      BY <2>0, <2>2, <3>1 DEF ScreensGood
    <3>3. ActsSo
      BY <2>2 DEF ActsSo
    <3> QED BY <3>2, <3>3
  <2>3. CASE part = "form" /\ FormNext
    <3>1. FormGood'
      BY <2>3, FormKeeps DEF ScreensGood
    <3>2. ScreensGood'
      BY <2>0, <2>3, <3>1 DEF ScreensGood
    <3>3. ActsSo
      BY <2>3 DEF ActsSo
    <3> QED BY <3>2, <3>3
  <2>4. CASE part = "files" /\ FilesNext
    <3>1. FilesGood' /\ PicksWhatIsShown
      BY <2>4, FilesKeeps DEF ScreensGood
    <3>2. ScreensGood'
      BY <2>0, <2>4, <3>1 DEF ScreensGood
    <3>3. ActsSo
      BY <2>4, <3>1 DEF ActsSo
    <3> QED BY <3>2, <3>3
  <2>5. CASE part = "menu" /\ MenuNext
    <3>1. MenuGood' /\ MenuFine' /\ RunsWhatIsShown /\ ParentIsRestored
      BY <2>5, MenuActs, MenuKeepsFine DEF ScreensGood
    <3>2. ScreensGood'
      BY <2>0, <2>5, <3>1 DEF ScreensGood
    <3>3. ActsSo
      BY <2>5, <3>1 DEF ActsSo
    <3> QED BY <3>2, <3>3
  <2>6. CASE part = "device" /\ DeviceNext
    <3>1. DraftGood' /\ ViewSound' /\ DraftAppliesToSeen
      BY <2>6, DeviceKeeps, ViewKeeps, AppliesToSeen DEF ScreensGood
    <3>2. ScreensGood'
      BY <2>0, <2>6, <3>1 DEF ScreensGood
    <3>3. ActsSo
      BY <2>6, <3>1 DEF ActsSo
    <3> QED BY <3>2, <3>3
  <2> QED BY <1>2, <2>1, <2>2, <2>3, <2>4, <2>5, <2>6 DEF ScreensNext
<1> QED BY <1>1, <1>2

\* Whatever is opened, typed, undone, answered, filtered, resized or refreshed, each
\* part keeps its invariant: an editor knows whether its draft is the stored text, a
\* snapshot grows downwards and the selections are in it, each menu of the path is
\* the one its item leads to and its cursor on a row, an accepted field passes the
\* caller's check, an open draft is that of the row the view was on, and what a device
\* view asks for is allowed and what it does not repaint is on the screen already.
THEOREM ScreensInvariance == ScreensSpec => []ScreensGood
<1>1. ScreensInit => ScreensGood
  BY ScreensStart
<1>2. ScreensGood /\ [ScreensNext]_screensVars => ScreensGood'
  BY ScreensStep
<1> QED BY <1>1, <1>2, PTL DEF ScreensSpec

\* Neither editor ever calls a draft unmodified that differs from what its caller has
\* stored, and nothing stays behind of a draft of the device view: ps_document_editor
\* and ps_hex_editor may leave without asking exactly then.
THEOREM DraftsStayHonest == ScreensSpec => []DraftsAreHonest
<1>1. DocGood => DocIsHonest
  BY DEF DocGood, Honest, DocIsHonest
<1>2. HexGood => HexIsHonest
  BY DEF HexGood
<1>3. DraftGood => DraftIsScrubbed
  BY DEF DraftGood, Fits, Clean, DraftIsScrubbed
<1>4. ScreensGood => DraftsAreHonest
  <2> SUFFICES ASSUME ScreensGood PROVE DraftsAreHonest
    OBVIOUS
  <2>1. /\ part = "document" => DocIsHonest
        /\ part = "hex" => HexIsHonest
        /\ part = "device" => DraftIsScrubbed
    BY <1>1, <1>2, <1>3 DEF ScreensGood
  <2> QED BY <2>1 DEF DraftsAreHonest
<1> QED BY <1>4, ScreensInvariance, PTL

\* Each part keeps its types: the cursor of an editor, of a form, of a tree, of a menu
\* and of a table stays in what it moves in, the number line and the path within their
\* limits, and a byte of the hex editor a byte.
THEOREM ScreensTyped == ScreensSpec => []ScreensTypeOK
<1>1. ASSUME ScreensGood PROVE ScreensTypeOK
  <2>1. part \in {"document", "hex", "form", "files", "menu", "device"}
    BY <1>1, PartsAssumption DEF ScreensGood
  <2>2. part = "document" => DocTypeOK
    BY <1>1, UndoGoodMeans DEF ScreensGood
  <2>3. part = "hex" => HexTypeOK
    BY <1>1 DEF ScreensGood, HexFine
  <2>4. part = "form" => FormTypeOK
    BY <1>1, FormMeans DEF ScreensGood
  <2>5. part = "files" => FilesTypeOK
    BY <1>1, FilesMean DEF ScreensGood
  <2>6. part = "menu" => MenuTypeOK
    BY <1>1, MenuFineMeans DEF ScreensGood
  <2>7. part = "device" => DeviceTypeOK
    BY <1>1, ViewMeans DEF ScreensGood
  <2> QED BY <2>1, <2>2, <2>3, <2>4, <2>5, <2>6, <2>7 DEF ScreensTypeOK
<1> QED BY <1>1, ScreensInvariance, PTL

\* What leaves a form or the device view is valid where it goes, whatever was typed,
\* pasted or pointed at: every value of an accepted form passes the caller's check
\* together with the others, if that check of a field looks at no later one, and what a
\* view asks its caller to do is what the schema it was shown allows.
THEOREM OnlyValidLeavesScreens == LooksBack => (ScreensSpec => []OnlyValidLeaves)
<1>1. ASSUME LooksBack, ScreensGood PROVE OnlyValidLeaves
  <2>1. part = "form" => AcceptedIsConsistent
    BY <1>1, FormMeans DEF ScreensGood
  <2>2. part = "device" => RequestIsAllowed
    BY <1>1, ViewMeans DEF ScreensGood
  <2> QED BY <2>1, <2>2 DEF OnlyValidLeaves
<1>2. LooksBack => (ScreensGood => OnlyValidLeaves)
  BY <1>1
<1>3. ScreensSpec => []ScreensGood
  BY ScreensInvariance
<1>4. SUFFICES ASSUME LooksBack PROVE ScreensSpec => []OnlyValidLeaves
  OBVIOUS
<1>5. ScreensGood => OnlyValidLeaves
  BY <1>2, <1>4
<1> QED BY <1>3, <1>5, PTL

\* The device view's retained painting shows what painting everything would, on every
\* page of the table and in every build, whatever was published, folded, edited, resized
\* or styled since: for as long as one pen has written all that is on the screen, which
\* only a page of cells, other glyphs or other choices behind their labels can end before
\* everything is painted again; and no folder is loaded twice into the tree of the file
\* browser.
THEOREM ScreensShowWhatIs == ScreensSpec => []ShowsWhatIs
<1>1. ASSUME ScreensGood PROVE ShowsWhatIs
  <2>1. part = "device" => ScreenIsCurrent
    BY <1>1, ViewMeans DEF ScreensGood
  <2>2. part = "files" => LoadedOnce
    BY <1>1, FilesMean DEF ScreensGood
  <2> QED BY <2>1, <2>2 DEF ShowsWhatIs
<1>2. ScreensGood => ShowsWhatIs
  BY <1>1
<1> QED BY <1>2, ScreensInvariance, PTL

\* What a key picks, runs or changes is what the user was shown, and a step back, of
\* the document or out of a submenu, returns to what was there: through folding,
\* filtering, resizing between the views, new descriptions and new snapshots.
THEOREM ScreensActOnWhatIsShown == ScreensSpec => ActsOnWhatIsShown
<1>1. ScreensGood /\ [ScreensNext]_screensVars => [ActsSo]_screensVars
  BY ScreensStep
<1> QED BY <1>1, ScreensInvariance, PTL DEF ScreensSpec, ActsOnWhatIsShown, ActsSo
=============================================================================
