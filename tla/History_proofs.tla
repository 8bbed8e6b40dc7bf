---------------------------- MODULE History_proofs ----------------------------
(***************************************************************************)
(* The history ring for every size, every set of commands and every order  *)
(* of adding, clearing and changing the limit.                             *)
(***************************************************************************)
EXTENDS History, TLAPS

\* The only remainders the ring takes are of numbers below twice its size.
LEMMA Wrap ==
  ASSUME NEW x \in 0 .. 2 * Size - 1
  PROVE  x % Size = IF x < Size THEN x ELSE x - Size
  <1> USE HistoryAssumption
  <1>1. CASE x < Size
    BY <1>1, SMT
  <1>2. CASE x >= Size
    BY <1>2, SMT
  <1> QED BY <1>1, <1>2

\* The numbers of the ring, as inequalities.
Sizes == /\ Size \in Nat /\ Size > 0
         /\ head \in Nat /\ head < Size
         /\ count \in Nat /\ limit \in Nat /\ count <= limit /\ limit <= Size

LEMMA SizesHold == TypeOK => Sizes
  BY HistoryAssumption DEF TypeOK, Places, Sizes

\* The same after a step.
LEMMA SizesNext == TypeOK' => Sizes'
  BY HistoryAssumption DEF TypeOK, Places, Sizes

\* Entry k lies k places after the oldest one, which lies count places before head.
LEMMA PlaceOf ==
  ASSUME TypeOK, NEW k \in 0 .. count - 1
  PROVE  /\ Place(k) \in Places
         /\ Place(k) = IF k < count - head THEN head + Size - count + k ELSE head - count + k
  <1>0. Sizes
    BY SizesHold
  <1> DEFINE x == head + Size - count + k
  <1>1. x \in 0 .. 2 * Size - 1
    BY <1>0 DEF Sizes
  <1>2. Place(k) = IF x < Size THEN x ELSE x - Size
    BY <1>1, Wrap DEF Place
  <1>3. CASE k < count - head
    BY <1>0, <1>2, <1>3 DEF Sizes, Places
  <1>4. CASE ~(k < count - head)
    BY <1>0, <1>2, <1>4 DEF Sizes, Places
  <1> QED BY <1>3, <1>4

\* Two entries lie in two places.
LEMMA PlacesDiffer ==
  ASSUME TypeOK, NEW i \in 0 .. count - 1, NEW j \in 0 .. count - 1, i # j
  PROVE  Place(i) # Place(j)
  <1>1. Sizes
    BY SizesHold
  <1>2. /\ Place(i) = IF i < count - head THEN head + Size - count + i ELSE head - count + i
        /\ Place(j) = IF j < count - head THEN head + Size - count + j ELSE head - count + j
    BY PlaceOf
  <1> QED BY <1>1, <1>2 DEF Sizes

\* Adding does not overwrite an entry, unless the ring is full and it is the oldest.
LEMMA HeadIsFree ==
  ASSUME TypeOK, NEW k \in 0 .. count - 1, k # 0 \/ count < Size
  PROVE  Place(k) # head
  <1>1. Sizes
    BY SizesHold
  <1>2. Place(k) = IF k < count - head THEN head + Size - count + k ELSE head - count + k
    BY PlaceOf
  <1> QED BY <1>1, <1>2 DEF Sizes

\* The place after head.
LEMMA NextHead ==
  ASSUME TypeOK
  PROVE  /\ (head + 1) % Size \in Places
         /\ (head + 1) % Size = IF head + 1 < Size THEN head + 1 ELSE 0
  <1>0. Sizes
    BY SizesHold
  <1> DEFINE x == head + 1
  <1>1. x \in 0 .. 2 * Size - 1 /\ x <= Size
    BY <1>0 DEF Sizes
  <1>2. x % Size = IF x < Size THEN x ELSE x - Size
    BY <1>1, Wrap
  <1> QED BY <1>0, <1>1, <1>2 DEF Sizes, Places

-----------------------------------------------------------------------------
\* The empty ring has its types.
LEMMA TypeInit == Init => TypeOK
  BY HistoryAssumption DEF Init, TypeOK, Places

\* Every operation keeps the types.
LEMMA TypeStep == TypeOK /\ [Next]_vars => TypeOK'
  <1> SUFFICES ASSUME TypeOK, [Next]_vars PROVE TypeOK'
    OBVIOUS
  <1> USE HistoryAssumption
  <1>1. ASSUME NEW line \in Line, Add(line) PROVE TypeOK'
    BY <1>1, NextHead DEF TypeOK, Add, Room, Places
  <1>2. ASSUME NEW lines \in SUBSET Line, Clear(lines) PROVE TypeOK'
    BY <1>2 DEF TypeOK, Clear, Places
  <1>3. ASSUME NEW n \in 0 .. Size + 1, Restrict(n) PROVE TypeOK'
    BY <1>3 DEF TypeOK, Restrict, Places
  <1>4. CASE UNCHANGED vars
    BY <1>4 DEF TypeOK, vars, Places
  <1> QED BY <1>1, <1>2, <1>3, <1>4 DEF Next

\* In every reachable state of ps_history_add, ps_history_clear and ps_history_limit the
\* count is within the limit, the limit within the ring, and head a place of it.
THEOREM TypeCorrect == Spec => []TypeOK
  BY TypeInit, TypeStep, PTL DEF Spec

-----------------------------------------------------------------------------
\* The entries after a line was added: itself, and the ones before it, without the oldest
\* when there was no room.
LEMMA AddMoves ==
  ASSUME TypeOK, NEW line \in Line, Add(line), NEW k \in Nat, k < count'
  PROVE  /\ k = count' - 1 => Get(k)' = line
         /\ k # count' - 1 => /\ k + count + 1 - count' \in 0 .. count - 1
                              /\ Get(k)' = Get(k + count + 1 - count')
  <1>0. TypeOK' /\ Sizes /\ Sizes'
    BY TypeStep, SizesHold, SizesNext DEF Next
  <1>1. count' = IF count < limit THEN count + 1 ELSE count
    BY DEF Add, Room
  <1>2. head' = IF head + 1 < Size THEN head + 1 ELSE 0
    BY NextHead DEF Add
  <1> DEFINE x == head' + Size - count' + k
             i == k + count + 1 - count'
  <1>3. x \in 0 .. 2 * Size - 1
    BY <1>0, <1>1, <1>2 DEF Sizes
  <1>4. Place(k)' = IF x < Size THEN x ELSE x - Size
    BY <1>3, Wrap DEF Place
  <1>5. Get(k)' = ring'[Place(k)']
    <2>1. k < count'
      BY <1>0 DEF Sizes
    <2> QED BY <2>1 DEF Get
  <1>6. ASSUME k = count' - 1 PROVE Get(k)' = line
    <2>1. Place(k)' = head
      BY <1>0, <1>1, <1>2, <1>4, <1>6 DEF Sizes
    <2>2. ring' = [ring EXCEPT ![head] = line] /\ ring \in [Places -> Line \cup {Blank}] /\ head \in Places
      BY DEF Add, TypeOK
    <2> QED BY <1>5, <2>1, <2>2
  <1>7. ASSUME k # count' - 1
        PROVE  i \in 0 .. count - 1 /\ (i # 0 \/ count < Size) /\ Get(k)' = Get(i)
    <2>1. i \in 0 .. count - 1 /\ (i # 0 \/ count < Size) /\ i < count
      BY <1>0, <1>1, <1>7 DEF Sizes
    <2> HIDE DEF i
    <2>2. Place(i) # head /\ Place(i) \in Places
      BY <2>1, HeadIsFree, PlaceOf
    <2>3. Place(i) = IF i < count - head THEN head + Size - count + i ELSE head - count + i
      BY <2>1, PlaceOf
    <2>4. Place(k)' = Place(i)
      BY <1>0, <1>1, <1>2, <1>4, <1>7, <2>3 DEF Sizes, i
    <2>5. ring' = [ring EXCEPT ![head] = line] /\ ring \in [Places -> Line \cup {Blank}]
      BY DEF Add, TypeOK
    <2>6. Get(i) = ring[Place(i)]
      BY <2>1 DEF Get
    <2> QED BY <1>5, <2>1, <2>2, <2>4, <2>5, <2>6
  <1> QED BY <1>6, <1>7

\* The limit keeps the last entries, whatever it erases.
LEMMA RestrictKeeps ==
  ASSUME TypeOK, NEW n \in 0 .. Size + 1, Restrict(n), NEW k \in Nat, k < count'
  PROVE  count - count' + k \in 0 .. count - 1 /\ Get(k)' = Get(count - count' + k)
  <1> DEFINE m == IF n > Size THEN Size ELSE n
             i == count - count' + k
  <1>0. Sizes /\ Sizes' /\ m \in 0 .. Size
    BY TypeStep, SizesHold, SizesNext DEF Next, Sizes
  <1>1. limit' = m /\ count' = IF m = 0 THEN 0 ELSE IF count > m THEN m ELSE count
    BY DEF Restrict
  <1>2. m # 0 /\ head' = head
    <2>1. m # 0
      BY <1>0, <1>1 DEF Sizes
    <2> QED BY <2>1 DEF Restrict
  <1> HIDE DEF m
  <1>3. i \in 0 .. count - 1 /\ i < count /\ count - m <= i
    BY <1>0, <1>1, <1>2 DEF Sizes
  <1>4. Place(k)' = Place(i)
    <2>1. head' + Size - count' + k = head + Size - count + i
      BY <1>0, <1>1, <1>2 DEF Sizes
    <2> QED BY <2>1 DEF Place
  <1> HIDE DEF i
  <1>5. ASSUME NEW j \in Out(m) PROVE Place(j) # Place(i)
    <2>1. j \in 0 .. count - 1 /\ j # i
      BY <1>0, <1>3, <1>5 DEF Out, Sizes
    <2> QED BY <1>3, <2>1, PlacesDiffer
  <1>6. Place(i) \in Places
    BY <1>3, PlaceOf
  <1>7. ring' = [p \in Places |-> IF p \in {Place(j) : j \in Out(m)} THEN Blank ELSE ring[p]]
    BY <1>2 DEF Restrict, m
  <1>8. ring'[Place(i)] = ring[Place(i)]
    BY <1>5, <1>6, <1>7
  <1>9. Get(k)' = ring'[Place(k)'] /\ Get(i) = ring[Place(i)]
    BY <1>3 DEF Get
  <1> QED BY <1>3, <1>4, <1>8, <1>9 DEF i

\* Every remembered entry is a command, and differs from the one before it: the erased and
\* unused places of the ring are never shown by ps_history_get.
LEMMA EntriesStep == TypeOK /\ EntriesAreCommands /\ [Next]_vars => EntriesAreCommands'
  <1> SUFFICES ASSUME TypeOK, EntriesAreCommands, [Next]_vars PROVE EntriesAreCommands'
    OBVIOUS
  <1>0. TypeOK'
    BY TypeStep
  <1>1. ASSUME NEW line \in Line, Add(line) PROVE EntriesAreCommands'
    <2> SUFFICES ASSUME NEW k \in Nat, k < count'
                 PROVE  Get(k)' \in Line /\ (k > 0 => Get(k)' # Get(k - 1)')
      BY <1>0, SizesNext DEF EntriesAreCommands, Sizes
    <2>0. Sizes /\ Sizes'
      BY <1>0, SizesHold, SizesNext
    <2>1. count' = IF count < limit THEN count + 1 ELSE count
      BY <1>1 DEF Add, Room
    <2> DEFINE i(j) == j + count + 1 - count'
    <2>2. ASSUME NEW j \in Nat, j < count'
          PROVE  /\ j = count' - 1 => Get(j)' = line
                 /\ j # count' - 1 => i(j) \in 0 .. count - 1 /\ Get(j)' = Get(i(j))
      BY ONLY TypeOK, <1>1, <2>2, AddMoves, Zenon
    <2>3. ASSUME NEW j \in 0 .. count - 1 PROVE Get(j) \in Line /\ (j > 0 => Get(j) # Get(j - 1))
      BY DEF EntriesAreCommands
    <2>4. Get(k)' \in Line
      BY <2>2, <2>3
    <2>5. ASSUME k > 0 PROVE Get(k)' # Get(k - 1)'
      <3>1. k - 1 \in Nat /\ k - 1 < count' /\ k - 1 # count' - 1
        BY <2>0, <2>1, <2>5 DEF Sizes
      <3>2. i(k - 1) \in 0 .. count - 1 /\ Get(k - 1)' = Get(i(k - 1))
        BY <2>2, <3>1
      <3>3. CASE k = count' - 1
        <4>1. i(k - 1) = count - 1
          BY <2>0, <2>1, <3>3 DEF Sizes
        <4>2. count # 0 => Get(count - 1) # line
          BY <1>1 DEF Add
        <4> QED BY <2>0, <2>1, <2>2, <3>2, <3>3, <4>1, <4>2 DEF Sizes
      <3>4. CASE k # count' - 1
        <4>1. i(k) \in 0 .. count - 1 /\ Get(k)' = Get(i(k))
          BY <2>2, <3>4
        <4>2. i(k - 1) = i(k) - 1 /\ i(k) > 0
          BY <2>0, <2>1, <3>2, <3>4 DEF Sizes
        <4> QED BY <2>3, <3>2, <4>1, <4>2
      <3> QED BY <3>3, <3>4
    <2> QED BY <2>4, <2>5
  <1>2. ASSUME NEW lines \in SUBSET Line, Clear(lines) PROVE EntriesAreCommands'
    BY <1>2 DEF Clear, EntriesAreCommands
  <1>3. ASSUME NEW n \in 0 .. Size + 1, Restrict(n) PROVE EntriesAreCommands'
    <2> SUFFICES ASSUME NEW k \in Nat, k < count'
                 PROVE  Get(k)' \in Line /\ (k > 0 => Get(k)' # Get(k - 1)')
      BY <1>0, SizesNext DEF EntriesAreCommands, Sizes
    <2>0. Sizes /\ Sizes'
      BY <1>0, SizesHold, SizesNext
    <2> DEFINE i(j) == count - count' + j
    <2>1. ASSUME NEW j \in Nat, j < count'
          PROVE  i(j) \in 0 .. count - 1 /\ Get(j)' = Get(i(j))
      BY ONLY TypeOK, <1>3, <2>1, RestrictKeeps, Zenon
    <2>2. ASSUME NEW j \in 0 .. count - 1 PROVE Get(j) \in Line /\ (j > 0 => Get(j) # Get(j - 1))
      BY DEF EntriesAreCommands
    <2>3. Get(k)' \in Line
      BY <2>1, <2>2
    <2>4. ASSUME k > 0 PROVE Get(k)' # Get(k - 1)'
      <3>1. k - 1 \in Nat /\ k - 1 < count'
        BY <2>0, <2>4 DEF Sizes
      <3>2. i(k - 1) = i(k) - 1 /\ i(k - 1) \in 0 .. count - 1 /\ i(k) > 0
        <4>1. \A c, d \in Nat : c - d + (k - 1) \in 0 .. c - 1 =>
                /\ c - d + (k - 1) = (c - d + k) - 1 /\ c - d + k > 0
          OBVIOUS
        <4>2. count \in Nat /\ count' \in Nat
          BY <2>0 DEF Sizes
        <4>3. i(k - 1) \in 0 .. count - 1
          BY <2>1, <3>1
        <4> QED BY <4>1, <4>2, <4>3
      <3> QED BY <2>1, <2>2, <3>1, <3>2
    <2> QED BY <2>3, <2>4
  <1>4. CASE UNCHANGED vars
    BY <1>4 DEF vars, EntriesAreCommands, Get, Place
  <1> QED BY <1>1, <1>2, <1>3, <1>4 DEF Next

\* ps_history_get never shows an erased or unused place of the ring, nor the same command
\* twice in a row.
THEOREM EntriesCorrect == Spec => []EntriesAreCommands
  <1>1. Init => EntriesAreCommands
    BY DEF Init, EntriesAreCommands
  <1> QED BY <1>1, TypeInit, TypeStep, EntriesStep, PTL DEF Spec
-----------------------------------------------------------------------------
\* The ring as the sequence of Recall: its entries are a sequence as long as the count.
LEMMA EntriesAreSeq ==
  ASSUME TypeOK
  PROVE  /\ Entries \in Seq(Line \cup {Blank}) /\ Len(Entries) = count
         /\ \A k \in 1 .. count : Entries[k] = Get(k - 1)
  <1>1. Sizes
    BY SizesHold
  <1>2. ASSUME NEW k \in 1 .. count PROVE Get(k - 1) \in Line \cup {Blank}
    <2>1. k - 1 \in 0 .. count - 1 /\ k - 1 < count
      BY <1>1 DEF Sizes
    <2>2. Place(k - 1) \in Places
      BY <2>1, PlaceOf
    <2> QED BY <2>1, <2>2 DEF Get, TypeOK
  <1> QED BY <1>1, <1>2 DEF Entries, Sizes

\* Recall's Latest, place by place.
LEMMA LatestIs ==
  ASSUME NEW S, NEW r \in Seq(S), NEW n \in Nat,
         NEW m \in Nat, m = IF Len(r) <= n THEN Len(r) ELSE n
  PROVE  /\ Sequence!Latest(r, n) \in Seq(S) /\ Len(Sequence!Latest(r, n)) = m
         /\ \A k \in 1 .. m : Sequence!Latest(r, n)[k] = r[Len(r) - m + k]
  <1>1. CASE Len(r) <= n
    BY <1>1 DEF Sequence!Latest
  <1>2. CASE ~(Len(r) <= n)
    BY <1>2 DEF Sequence!Latest
  <1> QED BY <1>1, <1>2
\* Two entry sequences that agree place by place are one.
LEMMA EntriesEqual ==
  ASSUME TypeOK', NEW S, NEW r \in Seq(S), Len(r) = count',
         \A k \in Nat : k < count' => r[k + 1] = Get(k)'
  PROVE  Entries' = r
  <1>1. count' \in Nat
    BY SizesNext DEF Sizes
  <1>2. \A k \in 1 .. count' : r[k] = Get(k - 1)'
    <2> SUFFICES ASSUME NEW k \in 1 .. count' PROVE r[k] = Get(k - 1)'
      OBVIOUS
    <2>1. k - 1 \in Nat /\ k - 1 < count' /\ (k - 1) + 1 = k
      BY <1>1
    <2> QED BY <2>1
  <1>3. r = [k \in 1 .. count' |-> r[k]]
    BY <1>1
  <1> QED BY <1>2, <1>3 DEF Entries

\* ps_history_add appends the line, and drops the oldest entry when there is no room.
LEMMA AddRefines ==
  ASSUME TypeOK, NEW line \in Line, Add(line)
  PROVE  Sequence!Add(line)
  <1> DEFINE T == Line \cup {Blank}
             all == Append(Entries, line)
             r == Sequence!Latest(all, limit)
  <1>0. TypeOK' /\ Sizes /\ Sizes' /\ limit # 0
    BY TypeStep, SizesHold, SizesNext DEF Next, Add, Admits
  <1>1. count' = IF count < limit THEN count + 1 ELSE count
    BY DEF Add, Room
  <1>2. /\ Entries \in Seq(T) /\ Len(Entries) = count
        /\ \A k \in 1 .. count : Entries[k] = Get(k - 1)
    BY EntriesAreSeq
  <1>3. /\ all \in Seq(T) /\ Len(all) = count + 1 /\ all[count + 1] = line
        /\ \A k \in 1 .. count : all[k] = Get(k - 1)
    BY <1>0, <1>2 DEF Sizes
  <1>4. limit \in Nat /\ count \in Nat
    BY <1>0 DEF Sizes
  <1> HIDE DEF all
  <1>5. count' \in Nat /\ count' = IF count + 1 <= limit THEN count + 1 ELSE limit
    BY <1>0, <1>1 DEF Sizes
  <1>6. /\ r \in Seq(T) /\ Len(r) = count'
        /\ \A k \in 1 .. count' : r[k] = all[Len(all) - count' + k]
    <2>1. count' = IF Len(all) <= limit THEN Len(all) ELSE limit
      BY <1>3, <1>5
    <2>2. \A m \in Nat : m = (IF Len(all) <= limit THEN Len(all) ELSE limit) =>
            /\ r \in Seq(T) /\ Len(r) = m
            /\ \A k \in 1 .. m : r[k] = all[Len(all) - m + k]
      <3> HIDE DEF T
      <3>1. all \in Seq(T) /\ limit \in Nat
        BY <1>3, <1>4
      <3> QED BY <3>1, LatestIs, Zenon
    <2> QED BY ONLY <1>5, <2>1, <2>2, Zenon
  <1>7. ASSUME NEW k \in Nat, k < count' PROVE r[k + 1] = Get(k)'
    <2> DEFINE i == Len(all) - count' + (k + 1)
    <2>1. r[k + 1] = all[i]
      <3>1. k + 1 \in 1 .. count'
        BY <1>5, <1>7
      <3> QED BY ONLY <1>6, <3>1, Zenon
    <2>2. /\ k = count' - 1 => Get(k)' = line
          /\ k # count' - 1 => /\ k + count + 1 - count' \in 0 .. count - 1
                               /\ Get(k)' = Get(k + count + 1 - count')
      BY ONLY TypeOK, Add(line), <1>7, AddMoves, Zenon
    <2>3. /\ k = count' - 1 => i = count + 1
          /\ k + count + 1 - count' \in 0 .. count - 1 =>
               i - 1 = k + count + 1 - count' /\ i \in 1 .. count
      <3>1. \A c, d, n \in Nat : n = c + 1 =>
              /\ k = d - 1 => n - d + (k + 1) = c + 1
              /\ k + c + 1 - d \in 0 .. c - 1 =>
                   /\ n - d + (k + 1) - 1 = k + c + 1 - d
                   /\ n - d + (k + 1) \in 1 .. c
        OBVIOUS
      <3>2. Len(all) \in Nat
        BY <1>3
      <3> QED BY <1>3, <1>4, <1>5, <3>1, <3>2
    <2> HIDE DEF i
    <2> QED BY <1>3, <2>1, <2>2, <2>3
  <1> HIDE DEF r
  <1>8. Entries' = r
    BY <1>0, <1>6, <1>7, EntriesEqual
  <1>9. ~(Entries # <<>> /\ Entries[Len(Entries)] = line)
    <2> SUFFICES ASSUME Entries # <<>> PROVE Entries[Len(Entries)] # line
      OBVIOUS
    <2>1. count # 0 /\ count \in 1 .. count
      BY <1>2, <1>4
    <2> QED BY <1>2, <2>1 DEF Add
  <1> QED BY <1>8, <1>9 DEF r, all, Sequence!Add, Sequence!With, Add

\* ps_history_clear forgets everything.
LEMMA ClearRefines ==
  ASSUME NEW lines, Clear(lines)
  PROVE  Sequence!Forget
  <1>1. Entries' = <<>>
    BY DEF Clear, Entries
  <1> QED BY <1>1 DEF Clear, Sequence!Forget

\* ps_history_limit keeps the latest entries the limit admits.
LEMMA RestrictRefines ==
  ASSUME TypeOK, NEW n \in 0 .. Size + 1, Restrict(n)
  PROVE  \E m \in 0 .. Size : Sequence!Restrict(m)
  <1> DEFINE m == IF n > Size THEN Size ELSE n
             T == Line \cup {Blank}
             r == Sequence!Latest(Entries, m)
  <1>0. TypeOK' /\ Sizes /\ Sizes' /\ m \in 0 .. Size
    BY TypeStep, SizesHold, SizesNext DEF Next, Sizes
  <1>1. limit' = m /\ count' = IF m = 0 THEN 0 ELSE IF count > m THEN m ELSE count
    BY DEF Restrict
  <1> HIDE DEF m
  <1>2. /\ Entries \in Seq(T) /\ Len(Entries) = count
        /\ \A k \in 1 .. count : Entries[k] = Get(k - 1)
    BY EntriesAreSeq
  <1>3. m \in Nat /\ count \in Nat /\ count' \in Nat
    BY <1>0 DEF Sizes
  <1>4. count' = IF Len(Entries) <= m THEN Len(Entries) ELSE m
    BY <1>1, <1>2, <1>3
  <1>5. /\ r \in Seq(T) /\ Len(r) = count'
        /\ \A k \in 1 .. count' : r[k] = Entries[Len(Entries) - count' + k]
    <2>1. \A l \in Nat : l = (IF Len(Entries) <= m THEN Len(Entries) ELSE m) =>
            /\ r \in Seq(T) /\ Len(r) = l
            /\ \A k \in 1 .. l : r[k] = Entries[Len(Entries) - l + k]
      <3> HIDE DEF T
      <3> QED BY <1>2, <1>3, LatestIs
    <2> QED BY ONLY <1>3, <1>4, <2>1, Zenon
  <1>6. ASSUME NEW k \in Nat, k < count' PROVE r[k + 1] = Get(k)'
    <2> DEFINE i == Len(Entries) - count' + (k + 1)
    <2>1. r[k + 1] = Entries[i]
      <3>1. k + 1 \in 1 .. count'
        BY <1>3, <1>6
      <3> QED BY ONLY <1>5, <3>1, Zenon
    <2>2. count - count' + k \in 0 .. count - 1 /\ Get(k)' = Get(count - count' + k)
      BY ONLY TypeOK, Restrict(n), n \in 0 .. Size + 1, <1>6, RestrictKeeps, Zenon
    <2>3. i - 1 = count - count' + k /\ i \in 1 .. count
      <3>1. \A c, d \in Nat : c - d + k \in 0 .. c - 1 =>
              \A j : j = c - d + (k + 1) => j - 1 = c - d + k /\ j \in 1 .. c
        OBVIOUS
      <3>2. i = count - count' + (k + 1)
        BY <1>2
      <3> HIDE DEF i
      <3> QED BY ONLY <1>3, <2>2, <3>1, <3>2, Zenon
    <2> HIDE DEF i
    <2> QED BY <1>2, <2>1, <2>2, <2>3
  <1> HIDE DEF r
  <1>7. Entries' = r
    BY <1>0, <1>5, <1>6, EntriesEqual
  <1>8. Sequence!Restrict(m)
    BY <1>1, <1>7 DEF r, Sequence!Restrict
  <1> QED BY <1>0, <1>8

\* The ring of ps_history_add, ps_history_clear and ps_history_limit is the bounded
\* sequence of Recall: no entry is lost, doubled or reordered, however often the head
\* went around and whichever limits came and went.
THEOREM RingImplementsRecall == Spec => Recalls
  <1>1. Init => Sequence!Init
    <2>1. Init => Entries = <<>>
      BY DEF Init, Entries
    <2> QED BY <2>1 DEF Init, Sequence!Init
  <1>2. TypeOK /\ [Next]_vars => [Sequence!Next]_<<Entries, limit>>
    <2> SUFFICES ASSUME TypeOK, [Next]_vars PROVE Sequence!Next \/ UNCHANGED <<Entries, limit>>
      OBVIOUS
    <2>1. ASSUME NEW line \in Line, Add(line) PROVE Sequence!Next
      BY <2>1, AddRefines DEF Sequence!Next
    <2>2. ASSUME NEW lines \in SUBSET Line, Clear(lines) PROVE Sequence!Next
      BY <2>2, ClearRefines DEF Sequence!Next
    <2>3. ASSUME NEW n \in 0 .. Size + 1, Restrict(n) PROVE Sequence!Next
      BY <2>3, RestrictRefines DEF Sequence!Next
    <2>4. CASE UNCHANGED vars
      BY <2>4 DEF vars, Entries, Get, Place
    <2> QED BY <2>1, <2>2, <2>3, <2>4 DEF Next
  <1> QED BY <1>1, <1>2, TypeCorrect, PTL DEF Spec, Recalls, Sequence!Spec, Sequence!vars
=============================================================================
