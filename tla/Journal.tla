------------------------------- MODULE Journal -------------------------------
(***************************************************************************)
(* The snapshots of include/portable_undo.h: a record of the frames, the   *)
(* oldest first, and the one the line is at.  Both editors keep one.       *)
(***************************************************************************)
EXTENDS Integers, Sequences

Empty == [frames |-> <<>>, at |-> 0]

\* The test ps_undo_record makes for a character still arriving.
EndsWhole(l) == l # <<>> => l[Len(l)] # "lead"

\* The journal with a new snapshot after frame k, the oldest evicted when it is full.
\* (Mutation: never evicted.)
PushedUnbounded(j, k, l, c, slots) ==
  [frames |-> Append(SubSeq(j.frames, 1, k), [line |-> l, cursor |-> c]), at |-> k + 1]
Pushed(j, k, l, c, slots) ==
  LET done == SubSeq(j.frames, 1, k)
      kept == IF k = slots THEN Tail(done) ELSE done
  IN [frames |-> Append(kept, [line |-> l, cursor |-> c]), at |-> Len(kept) + 1]

\* The snapshot of this line is the one the journal is at.
Stands(j, l) == j.at > 0 /\ j.frames[j.at].line = l

\* (Mutations: the redo branch stays; the cursor is not brought up to date.)
RecordOnto(j, l, c, slots) ==
  CASE ~EndsWhole(l) -> j
    [] EndsWhole(l) /\ Stands(j, l) -> [j EXCEPT !.frames[j.at].cursor = c]
    [] OTHER -> Pushed(j, Len(j.frames), l, c, slots)
RecordOnce(j, l, c, slots) ==
  IF ~EndsWhole(l) \/ Stands(j, l) THEN j ELSE Pushed(j, j.at, l, c, slots)

\* ps_undo_record: a new line drops the redo branch.
Record(j, l, c, slots) ==
  CASE ~EndsWhole(l) -> j
    [] EndsWhole(l) /\ Stands(j, l) -> [j EXCEPT !.frames[j.at].cursor = c]
    [] OTHER -> Pushed(j, j.at, l, c, slots)

\* ps_undo_step can move the journal to frame k.
Reaches(j, k) == k \in 1 .. Len(j.frames)
=============================================================================
