------------------------------- MODULE Recall -------------------------------
(***************************************************************************)
(* What the command history of src/portable_shell.c promises: the latest   *)
(* commands the limit and the filter admit, oldest first, never the same   *)
(* one twice in a row.  History implements it with a ring (History!Recalls)*)
(* and Prompt browses it.                                                  *)
(***************************************************************************)
EXTENDS Naturals, Sequences

CONSTANTS Line,   \* commands that can be stored
          Most    \* PS_HISTORY: the largest limit

VARIABLES recall, limit

vars == <<recall, limit>>

\* The last n entries.
Latest(r, n) == IF Len(r) <= n THEN r ELSE SubSeq(r, Len(r) - n + 1, Len(r))

\* What is remembered after line: nothing new if it repeats the last entry.
With(r, n, line) ==
  IF r # <<>> /\ r[Len(r)] = line THEN r ELSE Latest(Append(r, line), n)

Init == recall = <<>> /\ limit = Most

Add(line)  == recall' = With(recall, limit, line) /\ UNCHANGED limit
Forget     == recall' = <<>> /\ UNCHANGED limit
Restrict(n) == limit' = n /\ recall' = Latest(recall, n)

Next == \/ \E line \in Line : Add(line)
        \/ Forget
        \/ \E n \in 0 .. Most : Restrict(n)

Spec == Init /\ [][Next]_vars
=============================================================================
