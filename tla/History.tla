------------------------------- MODULE History -------------------------------
(***************************************************************************)
(* The command history of src/portable_shell.c: a ring of PS_HISTORY lines *)
(* of which the last "count" before "head" are remembered, under a limit   *)
(* that may change at any time and a filter the owner installs.            *)
(***************************************************************************)
EXTENDS Integers, Sequences

CONSTANTS Line,     \* commands that fit the line buffer and print safely
          Size,     \* PS_HISTORY
          Blank     \* an erased entry

ASSUME HistoryAssumption == Size \in Nat \ {0} /\ Blank \notin Line

VARIABLES ring,     \* s->history
          head,     \* s->history_head: where the next line goes
          count,    \* s->history_count
          limit,    \* s->history_limit
          filter    \* lines the owner's filter admits

vars == <<ring, head, count, limit, filter>>

Places == 0 .. Size - 1

\* Where entry k of the remembered ones is, counting from 0.  (Mutation: forgets
\* that the ring need not be full.)
PlaceFull(k) == (head + k) % Size
Place(k) == (head + Size - count + k) % Size

\* ps_history_get, and its answer to an index out of range.
Get(k) == IF k < count THEN ring[Place(k)] ELSE Blank

-----------------------------------------------------------------------------
Init == /\ ring = [p \in Places |-> Blank]
        /\ head = 0 /\ count = 0 /\ limit = Size /\ filter = Line

\* ps_history_add.  The limit may have sunk below what the ring can hold.
\* (Mutation: the limit is forgotten.)
Admits(line) == limit # 0 /\ line \in filter
RoomUnlimited == count < Size
Room == count < limit
Add(line) ==
  /\ Admits(line)
  /\ count # 0 => Get(count - 1) # line
  /\ ring' = [ring EXCEPT ![head] = line]
  /\ head' = (head + 1) % Size
  /\ count' = IF Room THEN count + 1 ELSE count
  /\ UNCHANGED <<limit, filter>>

\* ps_history_clear and ps_history_filter.
Clear(lines) ==
  /\ ring' = [p \in Places |-> Blank]
  /\ head' = 0 /\ count' = 0 /\ filter' = lines
  /\ UNCHANGED limit

\* ps_history_limit: the oldest entries beyond the limit are erased one by one, all
\* of them when there is no limit left.  (Mutation: one entry too many is.)
OutGreedy(n) == {k \in 0 .. count - 1 : k <= count - n}
Out(n) == {k \in 0 .. count - 1 : k < count - n}
Restrict(asked) ==
  LET n == IF asked > Size THEN Size ELSE asked
      erased == IF n = 0 THEN Places ELSE {Place(k) : k \in Out(n)}
  IN /\ limit' = n
     /\ ring' = [p \in Places |-> IF p \in erased THEN Blank ELSE ring[p]]
     /\ head' = IF n = 0 THEN 0 ELSE head
     /\ count' = IF n = 0 THEN 0 ELSE IF count > n THEN n ELSE count
     /\ UNCHANGED filter

Next == \/ \E line \in Line : Add(line)
        \/ \E lines \in SUBSET Line : Clear(lines)
        \/ \E n \in 0 .. Size + 1 : Restrict(n)

Spec == Init /\ [][Next]_vars
-----------------------------------------------------------------------------
TypeOK == /\ ring \in [Places -> Line \cup {Blank}]
          /\ head \in Places /\ limit \in 0 .. Size /\ count \in 0 .. limit
          /\ filter \subseteq Line

Entries == [k \in 1 .. count |-> Get(k - 1)]

\* The ring is the bounded sequence of Recall, whatever order of adding, clearing and
\* changing the limit the owner chose, and however often head went around.
Sequence == INSTANCE Recall WITH recall <- Entries, Most <- Size
Recalls == Sequence!Spec

\* Every remembered entry is a command, not a place that was erased or never used,
\* and differs from the one before it.
EntriesAreCommands ==
  \A k \in 0 .. count - 1 : /\ Get(k) \in Line
                            /\ k > 0 => Get(k) # Get(k - 1)
=============================================================================
