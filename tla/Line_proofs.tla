----------------------------- MODULE Line_proofs -----------------------------
(* What is proved of the parts under a line of text: that the transmit queue *)
(* is a bounded first-in first-out stream, that nothing of a line is lost to *)
(* a key, in the undo journal or in the prompt, and that the event editor's  *)
(* row shows its line, its suggestions continue it and a paste only adds.    *)
EXTENDS MCLine, Journal, History_proofs, Bounds_proofs, TLAPS

----------------------------------------------------------------------------
\* The ring's places, as inequalities.
C == QueueCapacity
RingSizes == /\ C \in Nat /\ C > 0 /\ WordMod \in Nat /\ C < WordMod
         /\ first \in Nat /\ first < C
         /\ used \in Nat /\ used <= C

LEMMA RingHolds == Queue!TypeOK => RingSizes
  BY LineAssumption DEF Queue!TypeOK, Queue!Places, RingSizes, C

LEMMA RingNext == Queue!TypeOK' => RingSizes'
  BY LineAssumption DEF Queue!TypeOK, Queue!Places, RingSizes, C

\* A place around the ring, and a size_t value that does not overflow.
LEMMA Around ==
  ASSUME NEW x \in Int, -C <= x, x < 2 * C
  PROVE  x % C = IF x < 0 THEN x + C ELSE IF x < C THEN x ELSE x - C
  <1>0. C \in Nat /\ C > 0
    BY LineAssumption DEF C
  <1> HIDE DEF C
  <1>1. CASE x < 0
    BY <1>0, <1>1, SMT
  <1>2. CASE x >= 0 /\ x < C
    BY <1>0, <1>2, SMT
  <1>3. CASE x >= C
    <2>1. \A c \in Nat \ {0} : \A y \in 0 .. 2 * c - 1 : y >= c => y % c = y - c
      BY SMT
    <2>2. x \in 0 .. 2 * C - 1
      BY <1>0, <1>3
    <2> QED BY <1>0, <1>3, <2>1, <2>2
  <1> QED BY <1>0, <1>1, <1>2, <1>3

LEMMA Word ==
  ASSUME NEW x \in Nat, x <= C
  PROVE  x % WordMod = x
  BY LineAssumption, SMT DEF C

\* Where the next byte goes, what fits, and what consume leaves.
LEMMA TailIs ==
  ASSUME RingSizes
  PROVE  /\ Queue!Tail0 = IF first + used < C THEN first + used ELSE first + used - C
         /\ Queue!Space = C - used
  <1>1. C - used \in Nat /\ C - used <= C /\ C - first \in Nat /\ C - first <= C
    BY DEF RingSizes
  <1>2. Queue!Space = C - used /\ Queue!Minus(QueueCapacity, first) = C - first
    BY <1>1, Word DEF Queue!Space, Queue!Minus, C
  <1>3. CASE used >= C - first
    <2>1. used - (C - first) \in Nat /\ used - (C - first) <= C
      BY <1>3 DEF RingSizes
    <2>2. Queue!Minus(used, C - first) = used - (C - first)
      BY <2>1, Word DEF Queue!Minus
    <2> QED BY <1>2, <1>3, <2>2 DEF Queue!Tail0, RingSizes
  <1>4. CASE ~(used >= C - first)
    <2>1. first + used \in Nat /\ first + used < C /\ first + used <= C
      BY <1>4 DEF RingSizes
    <2>2. Queue!Plus(first, used) = first + used
      BY <2>1, Word DEF Queue!Plus
    <2> QED BY <1>2, <1>4, <2>1, <2>2 DEF Queue!Tail0
  <1> QED BY <1>3, <1>4, <1>2 DEF RingSizes

LEMMA ConsumeMoves ==
  ASSUME RingSizes, NEW n \in Nat, n <= used, Queue!Consume(n)
  PROVE  first' = IF first + n < C THEN first + n ELSE first + n - C
  <1>1. C - first \in Nat /\ C - first <= C
    BY DEF RingSizes
  <1>2. Queue!Minus(QueueCapacity, first) = C - first
    BY <1>1, Word DEF Queue!Minus, C
  <1>3. CASE n >= C - first
    <2>1. n - (C - first) \in Nat /\ n - (C - first) <= C
      BY <1>3 DEF RingSizes
    <2>2. Queue!Minus(n, C - first) = n - (C - first)
      BY <2>1, Word DEF Queue!Minus
    <2> QED BY <1>2, <1>3, <2>2 DEF Queue!Consume, RingSizes
  <1>4. CASE ~(n >= C - first)
    <2>1. first + n \in Nat /\ first + n < C /\ first + n <= C
      BY <1>4 DEF RingSizes
    <2>2. Queue!Plus(first, n) = first + n
      BY <2>1, Word DEF Queue!Plus
    <2> QED BY <1>2, <1>4, <2>1, <2>2 DEF Queue!Consume
  <1> QED BY <1>3, <1>4

\* A write or a consume keeps the ring's types.
LEMMA QueueTyped == Queue!TypeOK /\ Queue!Next => Queue!TypeOK'
  <1> SUFFICES ASSUME Queue!TypeOK, Queue!Next PROVE Queue!TypeOK'
    OBVIOUS
  <1>0. RingSizes
    BY RingHolds
  <1>1. ASSUME NEW n \in 0 .. QueueCapacity, NEW s \in [1 .. n -> Byte], Queue!Write(s)
        PROVE  Queue!TypeOK'
    <2>1. s \in Seq(Byte) /\ Len(s) = n
      OBVIOUS
    <2>2. used + n \in Nat /\ used + n <= C
      BY <1>0, <1>1, <2>1, TailIs DEF Queue!Write, RingSizes
    <2>3. used' = used + n /\ first' = first
      BY <1>0, <1>1, <2>1, <2>2, Word DEF Queue!Write, Queue!Plus
    <2>4. \A p \in Queue!Places : (p - Queue!Tail0) % QueueCapacity \in Nat
      BY <1>0, TailIs DEF RingSizes, Queue!Places, C
    <2>5. bytes' \in [Queue!Places -> Byte]
      <3> DEFINE K(p) == (p - Queue!Tail0) % QueueCapacity
                 V(p) == IF K(p) < Len(s) THEN s[K(p) + 1] ELSE bytes[p]
      <3>1. \A p \in Queue!Places : V(p) \in Byte
        <4> TAKE p \in Queue!Places
        <4>1. CASE K(p) < n
          BY <2>1, <2>4, <4>1
        <4>2. CASE ~(K(p) < n)
          BY <2>1, <4>2 DEF Queue!TypeOK
        <4> QED BY <4>1, <4>2
      <3>2. bytes' = [p \in Queue!Places |-> V(p)]
        BY <1>1 DEF Queue!Write
      <3> HIDE DEF V
      <3> QED BY <3>1, <3>2
    <2> QED BY <1>0, <2>2, <2>3, <2>5 DEF Queue!TypeOK, RingSizes, C, Queue!Places
  <1>2. ASSUME NEW n \in 0 .. QueueCapacity, Queue!Consume(n)
        PROVE  Queue!TypeOK'
    <2>1. n \in Nat /\ n <= used
      BY <1>2 DEF Queue!Consume
    <2>2. used' = used - n
      BY <1>0, <1>2, <2>1, Word DEF Queue!Consume, Queue!Minus, RingSizes
    <2>3. first' \in Nat /\ first' < C
      BY <1>0, <2>1, <1>2, ConsumeMoves DEF RingSizes
    <2> QED BY <1>0, <1>2, <2>1, <2>2, <2>3 DEF Queue!TypeOK, Queue!Consume, RingSizes, C, Queue!Places
  <1> QED BY <1>1, <1>2 DEF Queue!Next

\* The queued bytes: byte k lies k places on from the first.
Spot(x) == IF x < C THEN x ELSE x - C

LEMMA ContentsOf ==
  ASSUME NEW b \in [Queue!Places -> Byte], NEW h \in Queue!Places, NEW n \in 0 .. QueueCapacity,
         NEW s, s = [k \in 1 .. n |-> b[(h + k - 1) % QueueCapacity]]
  PROVE  /\ s \in Seq(Byte) /\ Len(s) = n
         /\ \A k \in 1 .. n : s[k] = b[Spot(h + k - 1)]
  <1>0. C \in Nat /\ C > 0 /\ h \in Nat /\ h < C /\ n \in Nat /\ n <= C
    BY LineAssumption DEF C, Queue!Places
  <1>1. ASSUME NEW k \in 1 .. n
        PROVE  /\ (h + k - 1) % QueueCapacity = Spot(h + k - 1)
               /\ Spot(h + k - 1) \in Queue!Places
    <2>1. h + k - 1 \in Int /\ h + k - 1 >= 0 /\ h + k - 1 < 2 * C /\ -C <= h + k - 1
      BY <1>0
    <2>2. (h + k - 1) % C = Spot(h + k - 1)
      BY <2>1, Around DEF Spot
    <2> QED BY <1>0, <2>1, <2>2 DEF C, Spot, Queue!Places
  <1>2. \A k \in 1 .. n : b[Spot(h + k - 1)] \in Byte
    BY <1>1
  <1>3. s = [k \in 1 .. n |-> b[Spot(h + k - 1)]]
    BY <1>1
  <1> DEFINE V(k) == b[Spot(h + k - 1)]
  <1>4. \A k \in 1 .. n : V(k) \in Byte
    BY <1>2
  <1>5. s = [k \in 1 .. n |-> V(k)]
    BY <1>3
  <1>6. n \in Nat
    BY <1>0
  <1> HIDE DEF V
  <1>7. s \in [1 .. n -> Byte] /\ \A k \in 1 .. n : s[k] = V(k)
    BY <1>4, <1>5
  <1>8. s \in Seq(Byte) /\ Len(s) = n
    BY <1>6, <1>7
  <1> QED BY <1>7, <1>8 DEF V

LEMMA ContentsAre ==
  ASSUME Queue!TypeOK
  PROVE  /\ Queue!Contents \in Seq(Byte) /\ Len(Queue!Contents) = used
         /\ \A k \in 1 .. used : Queue!Contents[k] = bytes[Spot(first + k - 1)]
  BY ContentsOf DEF Queue!TypeOK, Queue!Contents

LEMMA ContentsNext ==
  ASSUME Queue!TypeOK'
  PROVE  /\ Queue!Contents' \in Seq(Byte) /\ Len(Queue!Contents') = used'
         /\ \A k \in 1 .. used' : Queue!Contents'[k] = bytes'[Spot(first' + k - 1)]
  BY ContentsOf DEF Queue!TypeOK, Queue!Contents, Queue!Places

\* Two sequences are one when they have the same places and bytes.
LEMMA SameSeq ==
  ASSUME NEW S, NEW a \in Seq(S), NEW b \in Seq(S), Len(a) = Len(b),
         \A k \in 1 .. Len(a) : a[k] = b[k]
  PROVE  a = b
  OBVIOUS

\* ps_byte_queue_write appends what it is given, and keeps every byte before it.
LEMMA WriteRefines ==
  ASSUME Queue!TypeOK, NEW n \in 0 .. QueueCapacity, NEW s \in [1 .. n -> Byte], Queue!Write(s)
  PROVE  Queue!Stream!Write(s)
  <1>0. RingSizes /\ Queue!TypeOK'
    BY RingHolds, QueueTyped DEF Queue!Next
  <1>1. s \in Seq(Byte) /\ Len(s) = n /\ n \in Nat
    OBVIOUS
  <1>2. n <= C - used /\ used + n <= C
    BY <1>0, <1>1, TailIs DEF Queue!Write, RingSizes
  <1>3. used' = used + n /\ first' = first
    BY <1>0, <1>1, <1>2, Word DEF Queue!Write, Queue!Plus, RingSizes
  <1>4. /\ Queue!Contents \in Seq(Byte) /\ Len(Queue!Contents) = used
        /\ \A k \in 1 .. used : Queue!Contents[k] = bytes[Spot(first + k - 1)]
    BY ContentsAre
  <1>5. /\ Queue!Contents' \in Seq(Byte) /\ Len(Queue!Contents') = used + n
        /\ \A k \in 1 .. used + n : Queue!Contents'[k] = bytes'[Spot(first + k - 1)]
    BY <1>0, <1>3, ContentsNext
  \* The place p of the ring is Off(p) places on from the tail.
  <1> DEFINE T == Spot(first + used)
             Off(p) == (p - T) % QueueCapacity
  <1>6. T = Queue!Tail0 /\ T \in Nat /\ T < C
    BY <1>0, TailIs DEF Spot, RingSizes
  <1>7. \A p \in Queue!Places : bytes'[p] = IF Off(p) < n THEN s[Off(p) + 1] ELSE bytes[p]
    BY <1>1, <1>6 DEF Queue!Write
  <1>8. ASSUME NEW k \in 1 .. used + n
        PROVE  LET p == Spot(first + k - 1) IN
                 /\ p \in Queue!Places
                 /\ Off(p) = IF k <= used THEN C - used + k - 1 ELSE k - used - 1
    <2> DEFINE p == Spot(first + k - 1)
    <2>1. p \in Nat /\ p < C
      BY <1>0, <1>2 DEF Spot, RingSizes
    <2>2. p - T \in Int /\ -C <= p - T /\ p - T < 2 * C
      BY <1>0, <1>6, <2>1 DEF RingSizes
    <2>3. Off(p) = IF p - T < 0 THEN p - T + C ELSE IF p - T < C THEN p - T ELSE p - T - C
      BY <2>2, Around DEF C
    <2>4. p - T = IF k <= used THEN (IF p < T THEN k - 1 - used ELSE C - used + k - 1)
                  ELSE (IF p < T THEN k - 1 - used - C ELSE k - used - 1)
      BY <1>0, <1>1, <1>2 DEF Spot, RingSizes
    <2> HIDE DEF p, T
    <2>5. Off(p) = IF k <= used THEN C - used + k - 1 ELSE k - used - 1
      BY <1>0, <1>1, <1>2, <1>6, <2>1, <2>3, <2>4 DEF RingSizes
    <2> QED BY <1>0, <2>1, <2>5 DEF RingSizes, p, C, Queue!Places
  <1>9. ASSUME NEW k \in 1 .. used + n
        PROVE  Queue!Contents'[k] = (Queue!Contents \o s)[k]
    <2> DEFINE p == Spot(first + k - 1)
    <2>1. Queue!Contents'[k] = IF Off(p) < n THEN s[Off(p) + 1] ELSE bytes[p]
      BY <1>5, <1>7, <1>8
    <2>2. Off(p) = IF k <= used THEN C - used + k - 1 ELSE k - used - 1
      BY <1>8
    <2>3. CASE k <= used
      <3>1. ~(Off(p) < n)
        BY <1>0, <1>2, <1>1, <2>2, <2>3 DEF RingSizes
      <3>2. k \in 1 .. used
        BY <1>0, <2>3 DEF RingSizes
      <3>3. Queue!Contents'[k] = Queue!Contents[k]
        BY <1>4, <2>1, <3>1, <3>2
      <3> QED BY <1>1, <1>4, <3>2, <3>3
    <2>4. CASE ~(k <= used)
      <3>1. Off(p) < n /\ Off(p) + 1 = k - used
        BY <1>0, <1>1, <2>2, <2>4 DEF RingSizes
      <3>2. Queue!Contents'[k] = s[k - used]
        BY <2>1, <3>1
      <3>3. k \in 1 .. used + n /\ used \in Nat /\ k > used
        BY <1>0, <2>4 DEF RingSizes
      <3> QED BY <1>1, <1>4, <3>2, <3>3
    <2> QED BY <2>3, <2>4
  <1>10. Queue!Contents' = Queue!Contents \o s
    <2>1. Queue!Contents \o s \in Seq(Byte) /\ Len(Queue!Contents \o s) = used + n
      BY <1>1, <1>4
    <2> QED BY <1>5, <1>9, <2>1, SameSeq
  <1> QED BY <1>1, <1>2, <1>4, <1>10 DEF Queue!Stream!Write, C

\* ps_byte_queue_consume takes its bytes from the front.
LEMMA ConsumeRefines ==
  ASSUME Queue!TypeOK, NEW n \in 0 .. QueueCapacity, Queue!Consume(n)
  PROVE  Queue!Stream!Consume(n)
  <1>0. RingSizes /\ Queue!TypeOK'
    BY RingHolds, QueueTyped DEF Queue!Next
  <1>1. n \in Nat /\ n <= used
    BY DEF Queue!Consume
  <1>2. used' = used - n /\ bytes' = bytes
    BY <1>0, <1>1, Word DEF Queue!Consume, Queue!Minus, RingSizes
  <1>3. first' = Spot(first + n)
    <2>1. first' = IF first + n < C THEN first + n ELSE first + n - C
      BY <1>0, <1>1, ConsumeMoves
    <2> QED BY <1>0, <1>1, <2>1 DEF Spot, RingSizes
  <1>4. /\ Queue!Contents \in Seq(Byte) /\ Len(Queue!Contents) = used
        /\ \A k \in 1 .. used : Queue!Contents[k] = bytes[Spot(first + k - 1)]
    BY ContentsAre
  <1>5. /\ Queue!Contents' \in Seq(Byte) /\ Len(Queue!Contents') = used - n
        /\ \A k \in 1 .. used - n : Queue!Contents'[k] = bytes[Spot(Spot(first + n) + k - 1)]
    BY <1>0, <1>2, <1>3, ContentsNext
  <1> DEFINE rest == SubSeq(Queue!Contents, n + 1, Len(Queue!Contents))
  <1>6. /\ rest \in Seq(Byte) /\ Len(rest) = used - n
        /\ \A k \in 1 .. used - n : rest[k] = Queue!Contents[n + k]
    BY <1>0, <1>1, <1>4 DEF RingSizes
  <1> HIDE DEF rest
  <1>7. ASSUME NEW k \in 1 .. used - n
        PROVE  Queue!Contents'[k] = rest[k]
    <2>1. n + k \in 1 .. used
      BY <1>0, <1>1 DEF RingSizes
    <2>2. Spot(Spot(first + n) + k - 1) = Spot(first + (n + k) - 1)
      BY <1>0, <1>1 DEF RingSizes, Spot
    <2> QED BY <1>4, <1>5, <1>6, <2>1, <2>2
  <1>8. Queue!Contents' = rest
    BY <1>5, <1>6, <1>7, SameSeq
  <1> QED BY <1>1, <1>4, <1>8 DEF rest, Queue!Stream!Consume

\* What ps_byte_queue_peek shows is a prefix of the queued bytes, empty only when they are.
LEMMA PeekShows == Queue!TypeOK => Queue!PeekIsPrefix
  <1> SUFFICES ASSUME Queue!TypeOK PROVE Queue!PeekIsPrefix
    OBVIOUS
  <1>0. RingSizes
    BY RingHolds
  <1>1. Queue!Minus(QueueCapacity, first) = C - first
    <2>1. C - first \in Nat /\ C - first <= C
      BY <1>0 DEF RingSizes
    <2> QED BY <2>1, Word DEF Queue!Minus, C
  <1> DEFINE m == Queue!Span
  <1>2. m = IF used < C - first THEN used ELSE C - first
    BY <1>1 DEF Queue!Span
  <1>3. m \in Nat /\ m <= used /\ (used > 0 => m > 0) /\ first + m <= C
    BY <1>0, <1>2 DEF RingSizes
  <1>4. /\ Queue!Contents \in Seq(Byte) /\ Len(Queue!Contents) = used
        /\ \A k \in 1 .. used : Queue!Contents[k] = bytes[Spot(first + k - 1)]
    BY ContentsAre
  <1>5. Queue!Peek = [k \in 1 .. m |-> bytes[first + k - 1]]
    BY DEF Queue!Peek
  <1> HIDE DEF m
  <1>6. \A k \in 1 .. m : bytes[first + k - 1] = Queue!Contents[k]
    <2> TAKE k \in 1 .. m
    <2>1. k \in 1 .. used /\ Spot(first + k - 1) = first + k - 1
      BY <1>0, <1>3 DEF RingSizes, Spot
    <2> QED BY <1>4, <2>1
  <1>7. SubSeq(Queue!Contents, 1, m) = [k \in 1 .. m |-> Queue!Contents[k]]
    BY <1>0, <1>3, <1>4 DEF RingSizes
  <1>8. Queue!Peek = SubSeq(Queue!Contents, 1, m)
    BY <1>5, <1>6, <1>7
  <1> QED BY <1>3, <1>8 DEF m, Queue!PeekIsPrefix

LEMMA QueueInvariance == LineSpec => [](part = "queue" => Queue!TypeOK)
  <1>1. LineInit => (part = "queue" => Queue!TypeOK)
    BY LineAssumption DEF LineInit, Queue!Init, Queue!TypeOK, Queue!Places, Queue!NoByte
  <1>2. (part = "queue" => Queue!TypeOK) /\ [LineNext]_lineVars => (part = "queue" => Queue!TypeOK)'
    <2> SUFFICES ASSUME part = "queue" => Queue!TypeOK, [LineNext]_lineVars, part' = "queue"
                 PROVE  Queue!TypeOK'
      OBVIOUS
    <2>1. part = "queue" /\ Queue!TypeOK
      BY DEF LineNext, lineVars
    <2>2. Queue!Next \/ UNCHANGED queueVars
      BY <2>1 DEF LineNext, lineVars
    <2>3. UNCHANGED queueVars => Queue!TypeOK'
      BY <2>1 DEF queueVars, Queue!TypeOK, Queue!Places
    <2> QED BY <2>1, <2>2, <2>3, QueueTyped
  <1> QED BY <1>1, <1>2, PTL DEF LineSpec

\* The transmit queue implements a bounded first-in first-out stream, for every capacity
\* and every size_t that can hold it, and what peek shows the transmitter is its beginning.
THEOREM QueueImplementsStream == LineSpec => QueueIsStream
  <1> DEFINE Moves == part = "queue" => /\ Queue!Stream!Next \/ Queue!Contents' = Queue!Contents
                                        /\ Queue!PeekIsPrefix'
  <1>1. LineInit => Queue!Stream!Init
    BY DEF LineInit, Queue!Init, Queue!Stream!Init, Queue!Contents
  <1>2. (part = "queue" => Queue!TypeOK) /\ (part = "queue" => Queue!TypeOK)' /\ [LineNext]_lineVars
        => [Moves]_lineVars
    <2> SUFFICES ASSUME part = "queue", Queue!TypeOK, (part = "queue" => Queue!TypeOK)', LineNext
                 PROVE  Moves
      BY DEF Moves
    <2>1. Queue!TypeOK' /\ Queue!Next
      BY DEF LineNext
    <2>2. Queue!PeekIsPrefix'
      BY <2>1, PeekShows, PTL
    <2>3. Queue!Stream!Next
      BY <2>1, WriteRefines, ConsumeRefines DEF Queue!Next, Queue!Stream!Next
    <2> QED BY <2>2, <2>3
  <1> QED BY <1>1, <1>2, QueueInvariance, PTL DEF LineSpec, QueueIsStream

----------------------------------------------------------------------------
(* The undo journal: its types.                                             *)

LEMMA UndoLine == \A l : l \in Undo!Lines <=> l \in Seq(Undo!Octet) /\ Len(l) < Buffer
  <1> SUFFICES ASSUME NEW l PROVE l \in Undo!Lines <=> l \in Seq(Undo!Octet) /\ Len(l) < Buffer
    OBVIOUS
  <1>0. Buffer \in Nat /\ Buffer > 0
    BY LineAssumption
  <1>1. l \in Undo!Lines => l \in Seq(Undo!Octet) /\ Len(l) < Buffer
    <2> SUFFICES ASSUME NEW n \in 0 .. Buffer - 1, l \in [1 .. n -> Undo!Octet]
                 PROVE  l \in Seq(Undo!Octet) /\ Len(l) < Buffer
      BY DEF Undo!Lines
    <2> QED BY <1>0
  <1>2. ASSUME l \in Seq(Undo!Octet), Len(l) < Buffer PROVE l \in Undo!Lines
    <2>1. Len(l) \in 0 .. Buffer - 1 /\ l \in [1 .. Len(l) -> Undo!Octet]
      BY <1>0, <1>2
    <2> QED BY <2>1 DEF Undo!Lines
  <1> QED BY <1>1, <1>2

\* The characters around a position of a line are within it.
LEMMA PrevIn ==
  ASSUME NEW l, NEW i \in Nat
  PROVE  Undo!Prev(l, i) \in 0 .. i
  <1> DEFINE S == {0} \cup {j \in 0 .. i - 1 : l[j + 1] # "cont"}
  <1>1. S \in SUBSET (0 .. i) /\ S # {}
    OBVIOUS
  <1> HIDE DEF S
  <1>2. \E x \in S : \A y \in S : x >= y
    BY <1>1, GreatestIn
  <1>3. Undo!Max(S) \in S
    BY <1>2 DEF Undo!Max
  <1> QED BY <1>1, <1>3 DEF S, Undo!Prev

LEMMA NextIn ==
  ASSUME NEW T, NEW l \in Seq(T), NEW i \in 0 .. Len(l)
  PROVE  Undo!Next1(l, i) \in i .. Len(l)
  <1> DEFINE S == {Len(l)} \cup {j \in i + 1 .. Len(l) - 1 : l[j + 1] # "cont"}
  <1>1. S \in SUBSET (i .. Len(l)) /\ S \in SUBSET Nat /\ S # {}
    OBVIOUS
  <1> HIDE DEF S
  <1>2. \E x \in S : \A y \in S : x <= y
    BY <1>1, LeastIn
  <1>3. Undo!Min(S) \in S
    BY <1>2 DEF Undo!Min
  <1> QED BY <1>1, <1>3 DEF S, Undo!Next1

----------------------------------------------------------------------------
(* The snapshots of both editors.                                           *)

\* A journal of snapshots from F: the line of each differs from that of the next.
IsJournal(j, F, slots) ==
  /\ j \in [frames : Seq(F), at : Nat]
  /\ Len(j.frames) <= slots /\ j.at <= Len(j.frames)
  /\ \A i \in 1 .. Len(j.frames) - 1 : j.frames[i].line # j.frames[i + 1].line

\* The journal is at a snapshot of this line and cursor.
Shows(j, l, c) == j.at >= 1 /\ j.frames[j.at] = [line |-> l, cursor |-> c]

\* A snapshot after frame k, if its line is another than that frame's.
LEMMA PushedKeeps ==
  ASSUME NEW F, NEW slots \in Nat, slots > 0, NEW j, IsJournal(j, F, slots),
         NEW k \in 0 .. Len(j.frames), NEW l, NEW c, [line |-> l, cursor |-> c] \in F,
         k > 0 => j.frames[k].line # l
  PROVE  /\ IsJournal(Pushed(j, k, l, c, slots), F, slots)
         /\ Shows(Pushed(j, k, l, c, slots), l, c)
         /\ Pushed(j, k, l, c, slots).at = Len(Pushed(j, k, l, c, slots).frames)
  <1> DEFINE f == [line |-> l, cursor |-> c]
             done == SubSeq(j.frames, 1, k)
             rest == IF k = slots THEN Tail(done) ELSE done
             p == Pushed(j, k, l, c, slots)
  <1>1. /\ j.frames \in Seq(F) /\ Len(j.frames) \in Nat /\ Len(j.frames) <= slots
        /\ \A i \in 1 .. Len(j.frames) - 1 : j.frames[i].line # j.frames[i + 1].line
    BY DEF IsJournal
  <1>2. /\ done \in Seq(F) /\ Len(done) = k
        /\ \A i \in 1 .. k : done[i] = j.frames[i]
    BY <1>1
  <1>3. \A i \in 1 .. k - 1 : done[i].line # done[i + 1].line
    BY <1>1, <1>2
  <1> HIDE DEF done
  <1>4. PICK n \in Nat : /\ rest \in Seq(F) /\ Len(rest) = n /\ n < slots
                         /\ \A i \in 1 .. n - 1 : rest[i].line # rest[i + 1].line
                         /\ n > 0 => rest[n].line # l
    <2>1. CASE k = slots
      <3>1. /\ Tail(done) \in Seq(F) /\ Len(Tail(done)) = k - 1
            /\ \A i \in 1 .. k - 1 : Tail(done)[i] = done[i + 1]
        BY <1>2, <2>1
      <3>2. k - 1 \in Nat /\ k - 1 < slots
        BY <2>1
      <3>3. \A i \in 1 .. (k - 1) - 1 : Tail(done)[i].line # Tail(done)[i + 1].line
        BY <1>3, <3>1
      <3>4. k - 1 > 0 => Tail(done)[k - 1].line # l
        BY <1>2, <3>1
      <3> QED BY <2>1, <3>1, <3>2, <3>3, <3>4
    <2>2. CASE k # slots
      <3>1. k \in Nat /\ k < slots
        BY <1>1, <2>2
      <3> QED BY <1>2, <1>3, <2>2, <3>1
    <2> QED BY <2>1, <2>2
  <1> HIDE DEF rest
  <1>5. p = [frames |-> Append(rest, f), at |-> n + 1]
    BY <1>4 DEF Pushed, done, rest
  <1>6. /\ Append(rest, f) \in Seq(F) /\ Len(Append(rest, f)) = n + 1
        /\ Append(rest, f)[n + 1] = f
        /\ \A i \in 1 .. n : Append(rest, f)[i] = rest[i]
    BY <1>4
  <1>7. \A i \in 1 .. (n + 1) - 1 : Append(rest, f)[i].line # Append(rest, f)[i + 1].line
    <2> TAKE i \in 1 .. (n + 1) - 1
    <2>1. CASE i = n
      BY <1>4, <1>6, <2>1
    <2>2. CASE i # n
      <3>1. i \in 1 .. n - 1 /\ i \in 1 .. n /\ i + 1 \in 1 .. n
        BY <2>2
      <3> QED BY <1>4, <1>6, <3>1
    <2> QED BY <2>1, <2>2
  <1> HIDE DEF p
  <1>8. IsJournal(p, F, slots)
    BY <1>4, <1>5, <1>6, <1>7 DEF IsJournal
  <1> QED BY <1>5, <1>6, <1>8 DEF Shows, p

\* ps_undo_record: the journal keeps its order, and is at the line, a whole one.
LEMMA RecordKeeps ==
  ASSUME NEW F, \A f \in F : \A d : [f EXCEPT !.cursor = d] = [line |-> f.line, cursor |-> d],
         NEW slots \in Nat, slots > 0, NEW j, IsJournal(j, F, slots),
         NEW l, NEW c, [line |-> l, cursor |-> c] \in F
  PROVE  /\ IsJournal(Record(j, l, c, slots), F, slots)
         /\ EndsWhole(l) => Shows(Record(j, l, c, slots), l, c)
         /\ ~EndsWhole(l) => Record(j, l, c, slots) = j
  <1>1. CASE ~EndsWhole(l)
    <2>1. Record(j, l, c, slots) = j
      BY <1>1, Zenon DEF Record
    <2> QED BY <1>1, <2>1
  <1>2. CASE EndsWhole(l) /\ Stands(j, l)
    <2> DEFINE r == [j EXCEPT !.frames[j.at].cursor = c]
               f == [line |-> l, cursor |-> c]
    <2>1. /\ j \in [frames : Seq(F), at : Nat] /\ j.at \in 1 .. Len(j.frames)
          /\ j.frames \in Seq(F) /\ Len(j.frames) <= slots
          /\ \A i \in 1 .. Len(j.frames) - 1 : j.frames[i].line # j.frames[i + 1].line
      BY <1>2 DEF IsJournal, Stands
    <2>2. j.frames[j.at] \in F /\ j.frames[j.at].line = l
      BY <1>2, <2>1 DEF Stands
    <2>3. [j.frames[j.at] EXCEPT !.cursor = c] = f
      BY <2>2
    <2>4. r = [frames |-> [j.frames EXCEPT ![j.at] = f], at |-> j.at]
      <3>1. r = [j EXCEPT !.frames = [j.frames EXCEPT ![j.at] = [j.frames[j.at] EXCEPT !.cursor = c]]]
        OBVIOUS
      <3>2. r = [j EXCEPT !.frames = [j.frames EXCEPT ![j.at] = f]]
        BY <2>3, <3>1
      <3>3. \A x : [j EXCEPT !.frames = x] = [frames |-> x, at |-> j.at]
        BY <2>1
      <3> QED BY <3>2, <3>3
    <2> DEFINE s == [j.frames EXCEPT ![j.at] = f]
    <2>5. /\ s \in Seq(F) /\ Len(s) = Len(j.frames) /\ s[j.at] = f
          /\ \A i \in 1 .. Len(j.frames) : s[i].line = j.frames[i].line
      BY <2>1, <2>2
    <2>6. \A i \in 1 .. Len(s) - 1 : s[i].line # s[i + 1].line
      <3> HIDE DEF s
      <3> TAKE i \in 1 .. Len(s) - 1
      <3>1. i \in 1 .. Len(j.frames) /\ i + 1 \in 1 .. Len(j.frames) /\ i \in 1 .. Len(j.frames) - 1
        BY <2>1, <2>5
      <3> QED BY <2>1, <2>5, <3>1
    <2>7. r.frames = s /\ r.at = j.at /\ r \in [frames : Seq(F), at : Nat]
      <3> HIDE DEF s
      <3> QED BY <2>1, <2>4, <2>5 DEF s
    <2> HIDE DEF r, s
    <2>8. IsJournal(r, F, slots) /\ Shows(r, l, c)
      BY <2>1, <2>5, <2>6, <2>7 DEF IsJournal, Shows
    <2>9. Record(j, l, c, slots) = r
      BY <1>2, Zenon DEF Record, r
    <2> QED BY <1>2, <2>8, <2>9
  <1>3. CASE EndsWhole(l) /\ ~Stands(j, l)
    <2>1. j.at \in 0 .. Len(j.frames) /\ (j.at > 0 => j.frames[j.at].line # l)
      BY <1>3 DEF IsJournal, Stands
    <2>2. Record(j, l, c, slots) = Pushed(j, j.at, l, c, slots)
      BY <1>3, Zenon DEF Record
    <2>3. /\ IsJournal(Pushed(j, j.at, l, c, slots), F, slots)
          /\ Shows(Pushed(j, j.at, l, c, slots), l, c)
      BY <2>1, PushedKeeps
    <2> QED BY <1>3, <2>2, <2>3
  <1> QED BY <1>1, <1>2, <1>3

----------------------------------------------------------------------------
(* The undo journal under the prompt.                                       *)

LEMMA UndoRecord ==
  \A j, l, c, n : Undo!Record(j, l, c, n) = Record(j, l, c, n)
  BY DEF Undo!Record, Undo!EndsWhole, Undo!Stands, Undo!Pushed, Record, EndsWhole, Stands, Pushed

IsUndoLine(l) == l \in Seq(Undo!Octet) /\ Len(l) < Buffer
IsUndoFrame(l, c) == IsUndoLine(l) /\ c \in 0 .. Len(l)
UndoFrames == {f \in Undo!Frame : f.cursor \in 0 .. Len(f.line)}
IsUndoJournal(j) == IsJournal(j, UndoFrames, Slots)

\* The line, the cursor and the journal, with the copies that are kept of the line.
UndoGood ==
  /\ IsUndoFrame(text, cursor) /\ IsUndoJournal(journal)
  /\ IsUndoLine(kept) /\ IsUndoLine(before)
  /\ search \in BOOLEAN /\ dialog \in BOOLEAN /\ pasted \in BOOLEAN /\ half \in BOOLEAN

LEMMA FrameIs ==
  ASSUME NEW l, NEW c, IsUndoFrame(l, c)
  PROVE  [line |-> l, cursor |-> c] \in UndoFrames
  <1>1. Buffer \in Nat /\ Len(l) \in Nat /\ Len(l) < Buffer
    BY LineAssumption DEF IsUndoFrame, IsUndoLine
  <1>2. c \in 0 .. Buffer - 1
    BY <1>1 DEF IsUndoFrame
  <1>3. l \in Undo!Lines
    BY UndoLine DEF IsUndoFrame, IsUndoLine
  <1> QED BY <1>2, <1>3 DEF Undo!Frame, UndoFrames, IsUndoFrame

LEMMA EmptyIs == IsUndoJournal(Undo!Empty) /\ IsUndoFrame(<<>>, 0)
  BY LineAssumption DEF Undo!Empty, IsUndoJournal, IsJournal, IsUndoFrame, IsUndoLine

LEMMA UndoRecords ==
  ASSUME NEW j, IsUndoJournal(j), NEW l, NEW c, IsUndoFrame(l, c)
  PROVE  /\ IsUndoJournal(Undo!Record(j, l, c, Slots))
         /\ EndsWhole(l) => Shows(Undo!Record(j, l, c, Slots), l, c)
         /\ ~EndsWhole(l) => Undo!Record(j, l, c, Slots) = j
  <1>1. [line |-> l, cursor |-> c] \in UndoFrames /\ Slots \in Nat /\ Slots > 0
    BY FrameIs, LineAssumption
  <1>2. \A f \in UndoFrames : \A d : [f EXCEPT !.cursor = d] = [line |-> f.line, cursor |-> d]
    BY DEF UndoFrames, Undo!Frame
  <1>3. IsJournal(j, UndoFrames, Slots)
    BY DEF IsUndoJournal
  <1> HIDE DEF IsUndoJournal
  <1>4. /\ IsJournal(Record(j, l, c, Slots), UndoFrames, Slots)
        /\ EndsWhole(l) => Shows(Record(j, l, c, Slots), l, c)
        /\ ~EndsWhole(l) => Record(j, l, c, Slots) = j
    BY <1>1, <1>2, <1>3, RecordKeeps
  <1>5. Undo!Record(j, l, c, Slots) = Record(j, l, c, Slots)
    BY UndoRecord
  <1> QED BY <1>4, <1>5 DEF IsUndoJournal

LEMMA Joined ==
  ASSUME NEW S, NEW a \in Seq(S), NEW b \in Seq(S)
  PROVE  a \o b \in Seq(S) /\ Len(a \o b) = Len(a) + Len(b)
  OBVIOUS

LEMMA CutTyped ==
  ASSUME NEW l, IsUndoLine(l), NEW i \in 0 .. Len(l), NEW j \in i .. Len(l)
  PROVE  IsUndoFrame(SubSeq(l, 1, i) \o SubSeq(l, j + 1, Len(l)), i)
  <1>1. l \in Seq(Undo!Octet) /\ Len(l) \in Nat /\ Len(l) < Buffer /\ Buffer \in Nat
    BY LineAssumption DEF IsUndoLine
  <1> DEFINE a == SubSeq(l, 1, i)
             b == SubSeq(l, j + 1, Len(l))
  <1>2. a \in Seq(Undo!Octet) /\ Len(a) = i
    BY <1>1
  <1>3. b \in Seq(Undo!Octet) /\ Len(b) = Len(l) - j
    BY <1>1
  <1> HIDE DEF a, b
  <1>4. a \o b \in Seq(Undo!Octet) /\ Len(a \o b) = i + (Len(l) - j)
    BY <1>2, <1>3, Joined
  <1>5. i \in 0 .. i + (Len(l) - j) /\ i + (Len(l) - j) < Buffer
    BY <1>1
  <1> QED BY <1>4, <1>5 DEF IsUndoFrame, IsUndoLine, a, b

LEMMA InsertTyped ==
  ASSUME IsUndoFrame(text, cursor), NEW b \in Undo!Octet, Undo!Insert(b)
  PROVE  IsUndoFrame(text', cursor') /\ half' \in BOOLEAN
  <1> DEFINE l == Undo!Inserted(b)
  <1>1. text' = l /\ cursor' = cursor + Len(l) - Len(text) /\ half' = (b = "lead")
    BY DEF Undo!Insert, Undo!Show
  <1>2. text \in Seq(Undo!Octet) /\ Len(text) \in Nat /\ cursor \in 0 .. Len(text) /\ Len(text) < Buffer
        /\ Buffer \in Nat
    BY LineAssumption DEF IsUndoFrame, IsUndoLine
  <1>3. CASE Len(text) + 1 >= Buffer
    <2>1. l = text
      BY <1>3 DEF Undo!Inserted
    <2> QED BY <1>1, <1>2, <2>1 DEF IsUndoFrame, IsUndoLine
  <1>4. CASE ~(Len(text) + 1 >= Buffer)
    <2> DEFINE x == SubSeq(text, 1, cursor)
               y == SubSeq(text, cursor + 1, Len(text))
    <2>1. l = x \o <<b>> \o y
      BY <1>4 DEF Undo!Inserted
    <2>2. x \in Seq(Undo!Octet) /\ Len(x) = cursor
      BY <1>2
    <2>3. y \in Seq(Undo!Octet) /\ Len(y) = Len(text) - cursor
      BY <1>2
    <2> HIDE DEF x, y, l
    <2>4. l \in Seq(Undo!Octet) /\ Len(l) = cursor + 1 + (Len(text) - cursor)
      <3>1. <<b>> \in Seq(Undo!Octet) /\ Len(<<b>>) = 1
        OBVIOUS
      <3>2. x \o <<b>> \in Seq(Undo!Octet) /\ Len(x \o <<b>>) = cursor + 1
        BY <2>2, <3>1, Joined
      <3> DEFINE z == x \o <<b>>
      <3> HIDE DEF z
      <3>3. z \o y \in Seq(Undo!Octet) /\ Len(z \o y) = Len(z) + Len(y)
        BY <2>3, <3>2, Joined DEF z
      <3> QED BY <2>1, <2>3, <3>2, <3>3 DEF z
    <2>5. Len(l) = Len(text) + 1 /\ cursor + Len(l) - Len(text) \in 0 .. Len(l) /\ Len(l) < Buffer
      BY <1>2, <1>4, <2>4
    <2> QED BY <1>1, <2>4, <2>5 DEF IsUndoFrame, IsUndoLine
  <1> QED BY <1>3, <1>4

\* What recalling, completing or taking a suggestion brings in fits the buffer.
LEMMA RecalledTyped == ASSUME NEW l \in Recalled PROVE IsUndoFrame(l, Len(l))
  <1>1. l \in Seq(Undo!Octet) /\ Len(l) < Buffer
    BY LineAssumption DEF Undo!Octet
  <1>2. Len(l) \in Nat
    BY <1>1
  <1> QED BY <1>1, <1>2 DEF IsUndoFrame, IsUndoLine

\* Undo and redo show a snapshot of the journal, and redo has what undo took.
LEMMA StepTyped ==
  ASSUME UndoGood, NEW k \in {-1, 1}, Undo!Step(k)
  PROVE  UndoGood' /\ (k = -1 => Undo!RedoReturns)
  <1> DEFINE j == Undo!Record(journal, text, cursor, Slots)
  <1>1. IsUndoJournal(j) /\ (EndsWhole(text) => Shows(j, text, cursor))
    BY UndoRecords DEF UndoGood
  <1>2. /\ j.frames \in Seq(UndoFrames) /\ j \in [frames : Seq(UndoFrames), at : Nat]
        /\ Len(j.frames) \in Nat /\ j.at \in 0 .. Len(j.frames)
    BY <1>1 DEF IsUndoJournal, IsJournal
  <1> HIDE DEF j
  <1>3. CASE ~Undo!Reaches(j, j.at + k)
    <2>1. UndoGood'
      BY <1>1, <1>3 DEF Undo!Step, UndoGood, j
    <2>2. text' = text
      BY <1>3 DEF Undo!Step, j
    <2> QED BY <2>1, <2>2 DEF Undo!RedoReturns
  <1>4. CASE Undo!Reaches(j, j.at + k)
    <2>1. j.at + k \in 1 .. Len(j.frames)
      BY <1>4 DEF Undo!Reaches
    <2> DEFINE f == j.frames[j.at + k]
    <2>2. f \in UndoFrames
      BY <1>2, <2>1
    <2>3. text' = f.line /\ cursor' = f.cursor /\ journal' = [j EXCEPT !.at = @ + k]
          /\ UNCHANGED <<search, kept, dialog, pasted, half, before>>
      BY <1>4 DEF Undo!Step, Undo!Show, j
    <2>4. IsUndoFrame(text', cursor')
      <3>1. f.line \in Undo!Lines /\ f.cursor \in 0 .. Len(f.line)
        BY <2>2 DEF UndoFrames, Undo!Frame
      <3> QED BY <2>3, <3>1, UndoLine DEF IsUndoFrame, IsUndoLine
    <2>5. journal' = [frames |-> j.frames, at |-> j.at + k]
      BY <1>2, <2>3
    <2>6. IsUndoJournal(journal')
      BY <1>1, <1>2, <2>1, <2>5 DEF IsUndoJournal, IsJournal
    <2>7. UndoGood'
      BY <2>3, <2>4, <2>6 DEF UndoGood
    <2>8. ASSUME k = -1, Undo!EndsWhole(text)
          PROVE  /\ Undo!Reaches(journal', journal'.at + 1)
                 /\ journal'.frames[journal'.at + 1] = [line |-> text, cursor |-> cursor]
      <3>1. Shows(j, text, cursor)
        BY <1>1, <2>8 DEF Undo!EndsWhole, EndsWhole
      <3>2. journal'.at + 1 = j.at /\ journal'.frames = j.frames
        BY <1>2, <2>5, <2>8
      <3> QED BY <1>2, <3>1, <3>2 DEF Shows, Undo!Reaches
    <2> QED BY <2>7, <2>8 DEF Undo!RedoReturns
  <1> QED BY <1>3, <1>4

LEMMA UndoActions ==
  ASSUME UndoGood, Undo!Next PROVE UndoGood'
  <1> DEFINE Lines == IsUndoFrame(text', cursor')
             Rest == UNCHANGED <<search, kept, dialog, pasted, before>>
  <1>0. /\ IsUndoFrame(text, cursor) /\ IsUndoJournal(journal) /\ IsUndoLine(kept) /\ IsUndoLine(before)
        /\ search \in BOOLEAN /\ dialog \in BOOLEAN /\ pasted \in BOOLEAN /\ half \in BOOLEAN
        /\ IsUndoLine(text) /\ cursor \in 0 .. Len(text) /\ Len(text) \in Nat
    BY DEF UndoGood, IsUndoFrame, IsUndoLine
  <1>e. IsUndoFrame(<<>>, 0) /\ IsUndoLine(<<>>) /\ IsUndoJournal(Undo!Empty)
    BY EmptyIs DEF IsUndoFrame
  <1>r. \A j, l, c : IsUndoJournal(j) /\ IsUndoFrame(l, c) => IsUndoJournal(Undo!Record(j, l, c, Slots))
    BY UndoRecords
  <1>l. \A l \in Recalled : IsUndoFrame(l, Len(l))
    BY RecalledTyped
  <1>p. \A l, c : IsUndoFrame(l, c) => IsUndoLine(l)
    BY DEF IsUndoFrame
  <1> HIDE DEF IsUndoFrame, IsUndoJournal, IsUndoLine
  <1>1. ASSUME NEW b \in Undo!Octet, Undo!Type(b) PROVE UndoGood'
    <2>1. IsUndoFrame(text', cursor') /\ half' \in BOOLEAN
      BY <1>0, <1>1, InsertTyped DEF Undo!Type
    <2>2. IsUndoJournal(journal')
      BY <1>0, <1>1, <1>r, <2>1 DEF Undo!Type, Undo!Recorded
    <2> QED BY <1>0, <1>1, <2>1, <2>2 DEF Undo!Type, UndoGood
  <1>2. ASSUME NEW b \in Undo!Octet, Undo!PasteByte(b) PROVE UndoGood'
    <2>1. IsUndoFrame(text', cursor') /\ half' \in BOOLEAN
      BY <1>0, <1>2, InsertTyped DEF Undo!PasteByte
    <2> QED BY <1>0, <1>2, <2>1 DEF Undo!PasteByte, UndoGood
  <1>3. ASSUME Undo!Edit PROVE UndoGood'
    <2> DEFINE T == text
    <2>1. Undo!Prev(text, cursor) \in 0 .. cursor /\ Undo!Next1(text, cursor) \in cursor .. Len(text)
      BY <1>0, PrevIn, NextIn DEF IsUndoLine
    <2>2. ASSUME NEW i \in 0 .. Len(text), NEW j \in i .. Len(text), Undo!Cut(i, j) PROVE Lines
      BY <1>0, <2>2, CutTyped DEF Undo!Cut, Undo!Show
    <2>3. ASSUME NEW i \in 0 .. Len(text), Undo!Show(text, i) PROVE Lines
      BY <1>0, <2>3 DEF Undo!Show, IsUndoFrame
    <2>4. ASSUME NEW l \in Recalled, Undo!Show(l, Len(l)) PROVE Lines
      BY <1>l, <2>4 DEF Undo!Show
    <2>5. Lines
      BY <1>0, <1>3, <2>1, <2>2, <2>3, <2>4 DEF Undo!Edit
    <2>6. IsUndoJournal(journal')
      BY <1>0, <1>3, <1>r, <2>5 DEF Undo!Edit, Undo!Recorded
    <2> QED BY <1>0, <1>3, <2>5, <2>6 DEF Undo!Edit, UndoGood
  <1>4. ASSUME Undo!Submit PROVE UndoGood'
    BY <1>0, <1>e, <1>4 DEF Undo!Submit, Undo!Show, UndoGood
  <1>5. ASSUME NEW k \in {-1, 1}, Undo!Step(k) PROVE UndoGood'
    BY <1>0, <1>5, StepTyped
  <1>6. ASSUME Undo!Search PROVE UndoGood'
    <2>1. Lines
      BY <1>0, <1>l, <1>6 DEF Undo!Search, Undo!SearchShows, Undo!Show
    <2> QED BY <1>0, <1>6, <1>r, <2>1 DEF Undo!Search, UndoGood
  <1>7. ASSUME Undo!SearchKey PROVE UndoGood'
    <2>1. Lines
      BY <1>0, <1>l, <1>7 DEF Undo!SearchKey, Undo!SearchShows, Undo!Show
    <2> QED BY <1>0, <1>7, <2>1 DEF Undo!SearchKey, UndoGood
  <1>8. ASSUME Undo!SearchEnd PROVE UndoGood'
    <2>1. Len(kept) \in 0 .. Len(kept)
      BY <1>0 DEF IsUndoLine
    <2>2. IsUndoFrame(kept, Len(kept))
      BY <1>0, <2>1 DEF IsUndoFrame
    <2>3. Lines /\ IsUndoJournal(journal')
      BY <1>0, <1>8, <1>e, <1>r, <2>2 DEF Undo!SearchEnd, Undo!Show
    <2> QED BY <1>0, <1>8, <1>e, <2>3 DEF Undo!SearchEnd, UndoGood
  <1>9. ASSUME Undo!Open PROVE UndoGood'
    BY <1>0, <1>r, <1>9 DEF Undo!Open, UndoGood
  <1>10. ASSUME Undo!Cancel \/ Undo!Load \/ Undo!Run PROVE UndoGood'
    <2>1. Lines
      BY <1>0, <1>e, <1>l, <1>10 DEF Undo!Cancel, Undo!Load, Undo!Run, Undo!Show
    <2> QED BY <1>0, <1>10, <2>1 DEF Undo!Cancel, Undo!Load, Undo!Run, UndoGood
  <1>11. ASSUME Undo!PasteBegin \/ Undo!PasteEnd PROVE UndoGood'
    BY <1>0, <1>e, <1>r, <1>11 DEF Undo!PasteBegin, Undo!PasteEnd, UndoGood
  <1> QED BY <1>1, <1>2, <1>3, <1>4, <1>5, <1>6, <1>7, <1>8, <1>9, <1>10, <1>11
          DEF Undo!Next, Undo!Undo, Undo!Redo

\* The journal is at the line the paste began with, if that was whole.
PasteAtStart == pasted /\ EndsWhole(before) => journal.at >= 1 /\ journal.frames[journal.at].line = before

LEMMA PasteKept == ASSUME UndoGood, PasteAtStart, Undo!Next PROVE PasteAtStart'
  <1>1. ASSUME Undo!PasteBegin PROVE PasteAtStart'
    <2>1. EndsWhole(text) => Shows(journal', text, cursor)
      BY <1>1, UndoRecords DEF Undo!PasteBegin, UndoGood
    <2>2. before' = text
      BY <1>1 DEF Undo!PasteBegin
    <2> QED BY <2>1, <2>2 DEF Shows, PasteAtStart
  <1>2. ASSUME NEW b \in Undo!Octet, Undo!PasteByte(b) PROVE PasteAtStart'
    BY <1>2 DEF PasteAtStart, Undo!PasteByte
  <1>3. ASSUME ~pasted' PROVE PasteAtStart'
    BY <1>3 DEF PasteAtStart
  <1>4. ASSUME ~pasted, ~Undo!PasteBegin PROVE ~pasted'
    BY <1>4 DEF Undo!Next, Undo!Type, Undo!AtPrompt, Undo!PasteByte, Undo!Edit, Undo!Submit, Undo!Undo,
                Undo!Redo, Undo!Step, Undo!Search, Undo!SearchKey, Undo!SearchEnd, Undo!Open, Undo!Cancel,
                Undo!Load, Undo!Run, Undo!PasteEnd
  <1>5. ASSUME pasted, \A b \in Undo!Octet : ~Undo!PasteByte(b) PROVE ~pasted'
    BY <1>5 DEF Undo!Next, Undo!Type, Undo!AtPrompt, Undo!Edit, Undo!Submit, Undo!Undo,
                Undo!Redo, Undo!Step, Undo!Search, Undo!SearchKey, Undo!SearchEnd, Undo!Open, Undo!Cancel,
                Undo!Load, Undo!Run, Undo!PasteEnd, Undo!PasteBegin
  <1> QED BY <1>1, <1>2, <1>3, <1>4, <1>5

\* The end of a paste is one snapshot after the line it began with.
LEMMA PasteEnds == ASSUME UndoGood, PasteAtStart, Undo!Next PROVE Undo!PasteIsOneStep
  <1> SUFFICES ASSUME Undo!PasteEnd, text # before, Undo!EndsWhole(text), Undo!EndsWhole(before)
               PROVE  /\ Undo!Reaches(journal', journal'.at - 1)
                      /\ journal'.frames[journal'.at - 1].line = before
    BY DEF Undo!PasteIsOneStep
  <1> DEFINE f == [line |-> text, cursor |-> cursor]
             k == journal.at
             done == SubSeq(journal.frames, 1, k)
             was == IF k = Slots THEN Tail(done) ELSE done
  <1>1. /\ journal.frames \in Seq(UndoFrames) /\ Len(journal.frames) \in Nat
        /\ k \in 1 .. Len(journal.frames) /\ k <= Slots /\ Slots \in Nat /\ Slots >= 2
        /\ journal.frames[k].line = before
    BY LineAssumption DEF UndoGood, IsUndoJournal, IsJournal, PasteAtStart, Undo!PasteEnd, EndsWhole, Undo!EndsWhole
  <1>2. journal' = [frames |-> Append(was, f), at |-> Len(was) + 1]
    <2>1. ~Undo!Stands(journal, text) /\ Undo!EndsWhole(text)
      BY <1>1 DEF Undo!Stands
    <2>2. Undo!Record(journal, text, cursor, Slots) = Undo!Pushed(journal, k, text, cursor, Slots)
      BY <2>1, Zenon DEF Undo!Record
    <2> QED BY <2>2 DEF Undo!PasteEnd, Undo!Pushed
  <1>3. done \in Seq(UndoFrames) /\ Len(done) = k /\ done[k].line = before
    BY <1>1
  <1> HIDE DEF done
  <1>4. PICK n \in Nat : was \in Seq(UndoFrames) /\ Len(was) = n /\ n >= 1 /\ was[n].line = before
    <2>1. CASE k = Slots
      <3>1. Tail(done) \in Seq(UndoFrames) /\ Len(Tail(done)) = k - 1 /\ Tail(done)[k - 1] = done[k]
        BY <1>1, <1>3, <2>1
      <3>2. k - 1 \in Nat /\ k - 1 >= 1
        BY <1>1, <2>1
      <3> QED BY <1>3, <2>1, <3>1, <3>2
    <2>2. CASE k # Slots
      BY <1>1, <1>3, <2>2
    <2> QED BY <2>1, <2>2
  <1> HIDE DEF was, k
  <1>5. journal'.at - 1 = n /\ journal'.frames = Append(was, f)
    BY <1>2, <1>4
  <1>6. Len(Append(was, f)) = n + 1 /\ Append(was, f)[n] = was[n] /\ n \in 1 .. n + 1
    BY <1>4
  <1> QED BY <1>4, <1>5, <1>6 DEF Undo!Reaches

----------------------------------------------------------------------------
(* The prompt.                                                              *)

\* A browse is as deep in the history as its user went up, or its draft is lost; the
\* buffer of the draft holds it, or the line a search came over.
PromptGood ==
  /\ nav \in Nat /\ (depth = nav \/ (depth = Prompt!Lost /\ nav > 0))
  /\ depth > 0 => saved = draft
  /\ mode = "search" => saved = held

\* A key that leaves these alone keeps them.
LEMMA QuietPrompt ==
  ASSUME PromptGood, UNCHANGED <<nav, saved, draft, depth>>, mode' = "search" => mode = "search" /\ held' = held
  PROVE  PromptGood'
  BY DEF PromptGood

LEMMA EnterGood ==
  ASSUME PromptGood, NEW l, mode = "prompt" \/ mode' = "prompt",
         Prompt!EnterWith(l) \/ Prompt!Refused(l), mode' = "search" => mode = "search"
  PROVE  nav' \in Nat /\ (depth' = nav' \/ (depth' = Prompt!Lost /\ nav' > 0)) /\ (depth' > 0 => saved' = draft')
  BY DEF PromptGood, Prompt!EnterWith, Prompt!Refused, Prompt!past

LEMMA PromptStep == ASSUME PromptGood, Prompt!Next PROVE PromptGood'
  <1> USE DEF Prompt!Plain, Prompt!AtPrompt, Prompt!past
  <1>1. ASSUME NEW c \in Char, Prompt!Type(c) \/ Prompt!PasteChar(c) PROVE PromptGood'
    BY <1>1, QuietPrompt DEF Prompt!Type, Prompt!PasteChar, Prompt!user
  <1>2. ASSUME Prompt!Change \/ Prompt!Accept \/ Prompt!KillLine PROVE PromptGood'
    BY <1>2, QuietPrompt DEF Prompt!Change, Prompt!Accept, Prompt!KillLine, Prompt!user
  <1>3. ASSUME Prompt!Up PROVE PromptGood'
    BY <1>3 DEF Prompt!Up, PromptGood, Prompt!CanGoUp, Prompt!Keeps, Prompt!Lost
  <1>4. ASSUME Prompt!Down PROVE PromptGood'
    BY <1>4 DEF Prompt!Down, PromptGood, Prompt!Lost
  <1>5. ASSUME Prompt!Enter PROVE PromptGood'
    <2>1. Prompt!EnterWith(line) \/ Prompt!Refused(line)
      BY <1>5 DEF Prompt!Enter
    <2>2. mode = "prompt" /\ mode' = mode
      BY <1>5 DEF Prompt!Enter
    <2> QED BY <2>1, <2>2, EnterGood DEF PromptGood
  <1>6. ASSUME Prompt!CtrlC PROVE PromptGood'
    BY <1>6 DEF Prompt!CtrlC, PromptGood, Prompt!LoseDraft, Prompt!Lost
  <1>7. ASSUME Prompt!Search PROVE PromptGood'
    BY <1>7 DEF Prompt!Search, PromptGood, Prompt!LoseDraft, Prompt!Lost, Prompt!SearchKeeps
  <1>8. ASSUME Prompt!SearchKey \/ Prompt!SearchAccept \/ Prompt!SearchCancel PROVE PromptGood'
    BY <1>8, QuietPrompt DEF Prompt!SearchKey, Prompt!SearchAccept, Prompt!SearchCancel, Prompt!user
  <1>9. ASSUME Prompt!Dialog \/ Prompt!DialogMove \/ Prompt!DialogCancel \/ Prompt!DialogLoad PROVE PromptGood'
    BY <1>9, QuietPrompt DEF Prompt!Dialog, Prompt!DialogMove, Prompt!DialogCancel, Prompt!DialogLoad,
                             Prompt!Leave, Prompt!user
  <1>10. ASSUME Prompt!DialogRun PROVE PromptGood'
    <2>1. Prompt!EnterWith(Prompt!Entry(at)) \/ Prompt!Refused(Prompt!Entry(at))
      BY <1>10 DEF Prompt!DialogRun
    <2>2. mode' = "prompt"
      BY <1>10 DEF Prompt!DialogRun, Prompt!Leave
    <2> QED BY <2>1, <2>2, EnterGood DEF PromptGood
  <1>11. ASSUME NEW m \in Commands, NEW i \in 0 .. Len(line), NEW j \in 0 .. Len(line), Prompt!Tab(m, i, j)
         PROVE  PromptGood'
    BY <1>11, QuietPrompt DEF Prompt!Tab, Prompt!user
  <1>12. ASSUME Prompt!Cycle PROVE PromptGood'
    BY <1>12, QuietPrompt DEF Prompt!Cycle, Prompt!user
  <1>13. ASSUME Prompt!PasteBegin \/ Prompt!PasteEnd PROVE PromptGood'
    BY <1>13, QuietPrompt DEF Prompt!PasteBegin, Prompt!PasteEnd, Prompt!user
  <1> QED BY <1>1, <1>2, <1>3, <1>4, <1>5, <1>6, <1>7, <1>8, <1>9, <1>10, <1>11, <1>12, <1>13 DEF Prompt!Next

\* Escape gives back the line a search came over, and the last Down the draft.
LEMMA PromptReturns == ASSUME PromptGood PROVE Prompt!SearchCancelRestores /\ Prompt!DraftRestored
  BY DEF PromptGood, Prompt!SearchCancelRestores, Prompt!SearchCancel, Prompt!DraftRestored, Prompt!Down,
         Prompt!Show, Prompt!Lost

----------------------------------------------------------------------------
LEMMA LineInvariance ==
  LineSpec => [](/\ part = "undo" => UndoGood /\ PasteAtStart
                 /\ part = "prompt" => PromptGood)
  <1> DEFINE Inv == /\ part = "undo" => UndoGood /\ PasteAtStart
                    /\ part = "prompt" => PromptGood
  <1>1. LineInit => Inv
    <2>1. Undo!Init => UndoGood /\ PasteAtStart
      BY EmptyIs DEF Undo!Init, UndoGood, PasteAtStart, IsUndoFrame
    <2>2. Prompt!Init => PromptGood
      BY DEF Prompt!Init, PromptGood
    <2> QED BY <2>1, <2>2 DEF LineInit
  <1>2. Inv /\ [LineNext]_lineVars => Inv'
    <2> SUFFICES ASSUME Inv, [LineNext]_lineVars PROVE Inv'
      OBVIOUS
    <2>1. part' = part
      BY DEF LineNext, lineVars
    <2>2. CASE part = "undo"
      <3>1. UndoGood /\ PasteAtStart /\ (Undo!Next \/ UNCHANGED undoVars)
        BY <2>2 DEF LineNext, lineVars
      <3>2. UNCHANGED undoVars => UndoGood' /\ PasteAtStart'
        BY <3>1 DEF undoVars, UndoGood, PasteAtStart
      <3> QED BY <2>1, <2>2, <3>1, <3>2, UndoActions, PasteKept
    <2>3. CASE part = "prompt"
      <3>1. PromptGood /\ (Prompt!Next \/ UNCHANGED promptVars)
        BY <2>3 DEF LineNext, lineVars
      <3>2. UNCHANGED promptVars => PromptGood'
        BY <3>1 DEF promptVars, PromptGood
      <3> QED BY <2>1, <2>3, <3>1, <3>2, PromptStep
    <2> QED BY <2>1, <2>2, <2>3
  <1> QED BY <1>1, <1>2, PTL DEF LineSpec

\* What a key hid comes back, in the journal and at the prompt, whatever was trimmed,
\* evicted, branched off or browsed in between: redo after undo, Escape after a search,
\* Down after Up; and every undo changes the line.
THEOREM WhatIsHiddenComesBack == LineSpec => ComesBack
  <1> DEFINE Inv == /\ part = "undo" => UndoGood /\ PasteAtStart
                    /\ part = "prompt" => PromptGood
             Back == /\ part = "undo" => Undo!RedoReturns /\ Undo!StepsDiffer'
                     /\ part = "prompt" => Prompt!SearchCancelRestores /\ Prompt!DraftRestored
  <1>1. Inv /\ [LineNext]_lineVars => [Back]_lineVars
    <2> SUFFICES ASSUME Inv, LineNext PROVE Back
      BY DEF Back
    <2>1. ASSUME part = "undo" PROVE Undo!RedoReturns /\ Undo!StepsDiffer'
      <3>1. UndoGood /\ UndoGood'
        BY <2>1, UndoActions DEF LineNext
      <3>2. Undo!StepsDiffer'
        BY <3>1 DEF UndoGood, IsUndoJournal, IsJournal, Undo!StepsDiffer
      <3>3. Undo!RedoReturns
        BY <3>1, StepTyped DEF Undo!RedoReturns, Undo!Undo
      <3> QED BY <3>2, <3>3
    <2>2. ASSUME part = "prompt" PROVE Prompt!SearchCancelRestores /\ Prompt!DraftRestored
      BY <2>2, PromptReturns
    <2> QED BY <2>1, <2>2
  <1> QED BY <1>1, LineInvariance, PTL DEF LineSpec, ComesBack

\* A bracketed paste is one step of the journal, whichever keys took its bytes.
THEOREM PastesAreOneStep == LineSpec => [][part = "undo" => Undo!PasteIsOneStep]_lineVars
  <1>1. (part = "undo" => UndoGood /\ PasteAtStart) /\ [LineNext]_lineVars
        => [part = "undo" => Undo!PasteIsOneStep]_lineVars
    BY PasteEnds DEF LineNext
  <1> QED BY <1>1, LineInvariance, PTL DEF LineSpec
----------------------------------------------------------------------------
(* The prompt's types.                                                      *)

IsPromptLine(l) == l \in Seq(Char) /\ Len(l) < Length

LEMMA PromptLine == \A l : l \in Prompt!Lines <=> IsPromptLine(l)
  <1> SUFFICES ASSUME NEW l PROVE l \in Prompt!Lines <=> l \in Seq(Char) /\ Len(l) < Length
    BY DEF IsPromptLine
  <1>0. Length \in Nat /\ Length > 0
    BY LineAssumption
  <1>1. l \in Prompt!Lines => l \in Seq(Char) /\ Len(l) < Length
    <2> SUFFICES ASSUME NEW n \in 0 .. Length - 1, l \in [1 .. n -> Char]
                 PROVE  l \in Seq(Char) /\ Len(l) < Length
      BY DEF Prompt!Lines
    <2> QED BY <1>0
  <1>2. ASSUME l \in Seq(Char), Len(l) < Length PROVE l \in Prompt!Lines
    <2>1. Len(l) \in 0 .. Length - 1 /\ l \in [1 .. Len(l) -> Char]
      BY <1>0, <1>2
    <2> QED BY <2>1 DEF Prompt!Lines
  <1> QED BY <1>1, <1>2

LEMMA PromptSizes == /\ Length \in Nat /\ Length > 0 /\ Most \in Nat /\ IsPromptLine(<<>>)
                     /\ \A l \in Remembered : IsPromptLine(l)
                     /\ \A m \in Commands : m \in Seq(Prompt!Lines) /\ Len(m) > 0
  <1>1. Length \in Nat /\ Length > 0 /\ Most \in Nat /\ Remembered \subseteq Prompt!Lines
        /\ \A m \in Commands : m \in Seq(Prompt!Lines) /\ Len(m) > 0
    BY LineAssumption
  <1>2. IsPromptLine(<<>>)
    BY <1>1 DEF IsPromptLine
  <1> QED BY <1>1, <1>2, PromptLine

\* The line and the cursor, the history and the place in it, what takes the keys, the
\* cycle and the suggestion.
PromptEdit == IsPromptLine(line) /\ pos \in 0 .. Len(line) /\ overflow \in BOOLEAN
PromptPast == /\ hist \in Seq(Remembered) /\ Len(hist) <= Most
              /\ nav \in 0 .. Len(hist) /\ IsPromptLine(saved)
PromptMode == /\ mode \in {"prompt", "search", "dialog"} /\ at \in 0 .. Most
              /\ mode = "dialog" => at < Len(hist)
              /\ pasting \in BOOLEAN
IsCycle(c) ==
  /\ DOMAIN c = {"on", "selected", "matches", "index", "start", "end"}
  /\ c.on \in BOOLEAN
  /\ c.on => /\ c.matches \in Seq(Prompt!Lines) /\ c.index \in Nat /\ c.index < Len(c.matches)
             /\ c.start \in Nat /\ c.end \in Nat /\ c.start <= c.end
PromptOffer == IsPromptLine(suggestion) /\ Prompt!SuggestionContinues
PromptTypes == PromptEdit /\ PromptPast /\ PromptMode /\ IsCycle(cycle) /\ PromptOffer

LEMMA PromptTyped == PromptTypes => Prompt!TypeOK
  BY PromptLine DEF PromptTypes, PromptEdit, PromptPast, PromptMode, IsCycle, PromptOffer, Prompt!TypeOK

\* What is left of a line around a cut, and put between.
LEMMA Parted ==
  ASSUME NEW T, NEW l \in Seq(T), NEW i \in 0 .. Len(l), NEW j \in 0 .. Len(l)
  PROVE  /\ SubSeq(l, 1, i) \in Seq(T) /\ Len(SubSeq(l, 1, i)) = i
         /\ SubSeq(l, j + 1, Len(l)) \in Seq(T) /\ Len(SubSeq(l, j + 1, Len(l))) = Len(l) - j
  OBVIOUS

Spliced(l, i, k, j) == SubSeq(l, 1, i) \o k \o SubSeq(l, j + 1, Len(l))
LEMMA Put ==
  ASSUME NEW T, NEW l \in Seq(T), NEW i \in 0 .. Len(l), NEW j \in 0 .. Len(l), NEW k \in Seq(T)
  PROVE  Spliced(l, i, k, j) \in Seq(T) /\ Len(Spliced(l, i, k, j)) = i + Len(k) + (Len(l) - j)
  <1> DEFINE a == SubSeq(l, 1, i)
             b == SubSeq(l, j + 1, Len(l))
             c == a \o k
  <1>1. a \in Seq(T) /\ Len(a) = i /\ b \in Seq(T) /\ Len(b) = Len(l) - j
    BY Parted
  <1> HIDE DEF a, b
  <1>2. c \in Seq(T) /\ Len(c) = i + Len(k)
    BY <1>1, Joined
  <1> HIDE DEF c
  <1>3. c \o b \in Seq(T) /\ Len(c \o b) = Len(c) + Len(b)
    BY <1>1, <1>2, Joined
  <1>4. Spliced(l, i, k, j) = c \o b
    BY DEF Spliced, a, b, c
  <1>5. Len(k) \in Nat /\ Len(l) \in Nat
    OBVIOUS
  <1> QED BY <1>1, <1>2, <1>3, <1>4, <1>5

LEMMA InsertFits ==
  ASSUME PromptEdit, NEW c \in Char, Prompt!Insert(c)
  PROVE  PromptEdit'
  <1>1. /\ line \in Seq(Char) /\ Len(line) \in Nat /\ Len(line) < Length /\ pos \in 0 .. Len(line)
        /\ Length \in Nat /\ overflow \in BOOLEAN
    BY PromptSizes DEF PromptEdit, IsPromptLine
  <1>2. CASE Len(line) + 1 >= Length
    BY <1>1, <1>2 DEF Prompt!Insert, PromptEdit, IsPromptLine
  <1>3. CASE ~(Len(line) + 1 >= Length)
    <2>0. <<c>> \in Seq(Char) /\ Len(<<c>>) = 1
      OBVIOUS
    <2>1. PICK k \in Seq(Char) : k = <<c>> /\ Len(k) = 1
      BY <2>0, Zenon
    <2>2. line' = Spliced(line, pos, k, pos) /\ pos' = pos + 1 /\ overflow' = overflow
      <3>1. SubSeq(line, 1, (pos + 1) - 1) = SubSeq(line, 1, pos)
        BY <1>1
      <3> QED BY <1>3, <2>1, <3>1 DEF Prompt!Insert, Prompt!InsertAt, Spliced
    <2>3. line' \in Seq(Char) /\ Len(line') = pos + Len(k) + (Len(line) - pos)
      BY <1>1, <2>2, Put
    <2>4. Len(line') = Len(line) + 1 /\ pos + 1 \in 0 .. Len(line') /\ Len(line') < Length
      BY <1>1, <1>3, <2>1, <2>3
    <2> QED BY <1>1, <2>2, <2>3, <2>4 DEF PromptEdit, IsPromptLine
  <1> QED BY <1>2, <1>3

LEMMA EntryTyped == ASSUME PromptPast, NEW k \in Int PROVE IsPromptLine(Prompt!Entry(k))
  <1>1. CASE k \in 0 .. Len(hist) - 1
    <2>1. hist \in Seq(Remembered) /\ k + 1 \in 1 .. Len(hist)
      BY <1>1 DEF PromptPast
    <2>2. hist[k + 1] \in Remembered
      BY <2>1
    <2> QED BY <1>1, <2>2, PromptSizes DEF Prompt!Entry
  <1>2. CASE k \notin 0 .. Len(hist) - 1
    BY <1>2, PromptSizes DEF Prompt!Entry
  <1> QED BY <1>1, <1>2

\* Showing a line puts the cursor at its end.
LEMMA ShowFits ==
  ASSUME NEW l, IsPromptLine(l), Prompt!Show(l), overflow' \in BOOLEAN
  PROVE  PromptEdit'
  <1>1. Len(l) \in Nat
    BY DEF IsPromptLine
  <1> QED BY <1>1 DEF Prompt!Show, PromptEdit, IsPromptLine

\* What is drawn after the line continues it.
LEMMA DrawnContinues ==
  ASSUME hist' \in Seq(Remembered), PromptEdit', Prompt!Drawn
  PROVE  PromptOffer'
  <1>1. CASE suggestion' = <<>>
    BY <1>1, PromptSizes DEF PromptOffer, Prompt!SuggestionContinues
  <1>2. CASE suggestion' \in Prompt!Suggestions(line')
    <2> DEFINE S == Prompt!Continued(line')
    <2>1. CASE S # {}
      <3>1. S \in SUBSET (0 .. Len(hist')) /\ Len(hist') \in Nat
        BY DEF Prompt!Continued
      <3> HIDE DEF S
      <3>2. \E x \in S : \A y \in S : x >= y
        BY <2>1, <3>1, GreatestIn
      <3>3. Prompt!Max(S) \in S
        BY <3>2 DEF Prompt!Max
      <3>4. suggestion' = hist'[Prompt!Max(S)]
        BY <1>2, <2>1 DEF S, Prompt!Suggestions
      <3>5. Prompt!Max(S) \in DOMAIN hist' /\ Prompt!IsStrictPrefix(line', hist'[Prompt!Max(S)])
        BY <3>3 DEF S, Prompt!Continued
      <3>6. hist'[Prompt!Max(S)] \in Remembered
        BY <3>5
      <3> QED BY <3>4, <3>5, <3>6, PromptSizes DEF PromptOffer, Prompt!SuggestionContinues
    <2>2. CASE S = {}
      <3>1. suggestion' \in Prompt!Completed(line')
        BY <1>2, <2>2, Zenon DEF Prompt!Suggestions
      <3>2. suggestion' \in Prompt!Lines /\ Prompt!IsStrictPrefix(line', suggestion')
        BY <3>1 DEF Prompt!Completed
      <3> QED BY <3>2, PromptLine DEF PromptOffer, Prompt!SuggestionContinues
    <2> QED BY <2>1, <2>2
  <1> QED BY <1>1, <1>2 DEF Prompt!Drawn

LEMMA ChangeFits == ASSUME PromptEdit, Prompt!Change PROVE PromptEdit'
  <1>1. /\ line \in Seq(Char) /\ Len(line) \in Nat /\ Len(line) < Length /\ pos \in 0 .. Len(line)
        /\ Length \in Nat /\ overflow \in BOOLEAN /\ overflow' = overflow
    BY PromptSizes DEF PromptEdit, IsPromptLine, Prompt!Change
  <1>2. ASSUME NEW i \in 0 .. pos, NEW j \in pos .. Len(line),
               line' = SubSeq(line, 1, i) \o SubSeq(line, j + 1, Len(line)) /\ pos' = i
        PROVE  PromptEdit'
    <2> DEFINE a == SubSeq(line, 1, i)
               b == SubSeq(line, j + 1, Len(line))
    <2>1. i \in 0 .. Len(line) /\ j \in 0 .. Len(line) /\ i <= j
      BY <1>1
    <2>2. a \in Seq(Char) /\ Len(a) = i /\ b \in Seq(Char) /\ Len(b) = Len(line) - j
      BY <1>1, <2>1, Parted
    <2>3. line' = a \o b
      BY <1>2
    <2> HIDE DEF a, b
    <2>4. line' \in Seq(Char) /\ Len(line') = i + (Len(line) - j)
      BY <2>2, <2>3, Joined
    <2>5. pos' = i
      BY <1>2
    <2> QED BY <1>1, <2>1, <2>4, <2>5 DEF PromptEdit, IsPromptLine
  <1>3. CASE line' = line /\ pos' \in 0 .. Len(line)
    BY <1>1, <1>3 DEF PromptEdit, IsPromptLine
  <1>4. ASSUME NEW k \in Prompt!Lines, Len(line) + Len(k) < Length,
               line' = SubSeq(line, 1, pos) \o k \o SubSeq(line, pos + 1, Len(line)),
               pos' = pos + Len(k)
        PROVE  PromptEdit'
    <2>1. k \in Seq(Char) /\ Len(k) \in Nat
      BY PromptLine DEF IsPromptLine
    <2>2. line' = Spliced(line, pos, k, pos)
      BY <1>4 DEF Spliced
    <2>3. line' \in Seq(Char) /\ Len(line') = pos + Len(k) + (Len(line) - pos)
      BY <1>1, <2>1, <2>2, Put
    <2>4. pos' = pos + Len(k) /\ Len(line) + Len(k) < Length
      BY <1>4
    <2> QED BY <1>1, <2>1, <2>3, <2>4 DEF PromptEdit, IsPromptLine
  <1> QED BY <1>2, <1>3, <1>4 DEF Prompt!Change

\* What is remembered of a command keeps the limit.
LEMMA WithKeeps ==
  ASSUME NEW r \in Seq(Remembered), Len(r) <= Most, NEW l \in Remembered
  PROVE  Prompt!Recall!With(r, Most, l) \in Seq(Remembered) /\ Len(Prompt!Recall!With(r, Most, l)) <= Most
  <1> DEFINE a == Append(r, l)
  <1>0. Most \in Nat /\ Len(r) \in Nat
    BY PromptSizes
  <1>1. a \in Seq(Remembered) /\ Len(a) = Len(r) + 1
    OBVIOUS
  <1>2. CASE r # <<>> /\ r[Len(r)] = l
    BY <1>2 DEF Prompt!Recall!With
  <1>3. CASE ~(r # <<>> /\ r[Len(r)] = l)
    <2>1. Prompt!Recall!With(r, Most, l) = Prompt!Recall!Latest(a, Most)
      BY <1>3 DEF Prompt!Recall!With
    <2> HIDE DEF a
    <2>2. CASE Len(a) <= Most
      BY <1>1, <2>1, <2>2 DEF Prompt!Recall!Latest
    <2>3. CASE ~(Len(a) <= Most)
      <3>1. Len(a) = Most + 1
        BY <1>0, <1>1, <2>3
      <3>2. Prompt!Recall!With(r, Most, l) = SubSeq(a, 1 + 1, Len(a))
        BY <1>0, <2>1, <2>3, <3>1 DEF Prompt!Recall!Latest
      <3>3. SubSeq(a, 1 + 1, Len(a)) \in Seq(Remembered) /\ Len(SubSeq(a, 1 + 1, Len(a))) = Len(a) - 1
        <4>1. 1 \in 0 .. Len(a)
          BY <1>0, <3>1
        <4> QED BY <1>1, <4>1, Parted
      <3> QED BY <1>0, <3>1, <3>2, <3>3
    <2> QED BY <2>2, <2>3
  <1> QED BY <1>2, <1>3

LEMMA EnterFits ==
  ASSUME PromptTypes, NEW l, Prompt!EnterWith(l)
  PROVE  PromptEdit' /\ PromptPast' /\ hist' \in Seq(Remembered)
  <1>1. Prompt!Show(<<>>) /\ overflow' = FALSE /\ nav' = 0
    BY DEF Prompt!EnterWith, Prompt!Fresh
  <1>2. PromptEdit'
    BY <1>1, PromptSizes, ShowFits
  <1>3. PromptPast
    BY DEF PromptTypes
  <1>4. hist' \in Seq(Remembered) /\ Len(hist') <= Most /\ IsPromptLine(saved')
    <2>1. CASE UNCHANGED <<hist, saved>>
      BY <1>3, <2>1 DEF PromptPast
    <2>2. ASSUME NEW m, Prompt!Executed(m) PROVE hist' \in Seq(Remembered) /\ Len(hist') <= Most /\ IsPromptLine(saved')
      <3>1. hist \in Seq(Remembered) /\ Len(hist) <= Most /\ IsPromptLine(saved)
        BY <1>3 DEF PromptPast
      <3>2. CASE hist' = <<>> /\ saved' = <<>>
        BY <3>2, PromptSizes
      <3>3. CASE hist' = hist /\ UNCHANGED saved
        BY <3>1, <3>3
      <3>4. CASE m \in Remembered /\ hist' = Prompt!Recall!With(hist, Most, m) /\ UNCHANGED saved
        BY <3>1, <3>4, WithKeeps
      <3> QED BY <2>2, <3>2, <3>3, <3>4 DEF Prompt!Executed
    <2> QED BY <2>1, <2>2 DEF Prompt!EnterWith
  <1> QED BY <1>1, <1>2, <1>4 DEF PromptPast

\* The candidates of a command have a longest common beginning.
LEMMA CommonTyped ==
  ASSUME NEW m \in Commands
  PROVE  IsPromptLine(Prompt!Common(m))
  <1> DEFINE Starts(l) == \A k \in 1 .. Len(m) : Prompt!IsPrefix(l, m[k])
             T == {l \in Prompt!Lines : Starts(l)}
             S == {Len(l) : l \in T}
  <1>0. m \in Seq(Prompt!Lines) /\ Length \in Nat /\ Length > 0
    BY PromptSizes
  <1>1. <<>> \in T
    <2>1. ASSUME NEW k \in 1 .. Len(m) PROVE Prompt!IsPrefix(<<>>, m[k])
      <3>1. m[k] \in Prompt!Lines
        BY <1>0, <2>1
      <3>2. m[k] \in Seq(Char)
        BY <3>1, PromptLine DEF IsPromptLine
      <3>3. \A t \in Seq(Char) : SubSeq(t, 1, 0) = <<>> /\ 0 <= Len(t)
        OBVIOUS
      <3>4. SubSeq(<<>>, 1, 0) = <<>> /\ Len(<<>>) = 0
        OBVIOUS
      <3> QED BY <3>2, <3>3, <3>4 DEF Prompt!IsPrefix
    <2>2. <<>> \in Prompt!Lines
      BY PromptSizes, PromptLine
    <2> QED BY <2>1, <2>2
  <1>2. \A l \in T : l \in Prompt!Lines /\ Starts(l) /\ Len(l) \in 0 .. Length - 1
    BY <1>0, PromptLine DEF IsPromptLine
  <1>t. \A l : l \in T <=> l \in Prompt!Lines /\ Starts(l)
    OBVIOUS
  <1> HIDE DEF T
  <1>3. S \in SUBSET (0 .. Length - 1) /\ S # {} /\ Length - 1 \in Nat
    <2>1. \A y \in S : y \in 0 .. Length - 1
      BY <1>2
    <2>2. Len(<<>>) \in S
      BY <1>1
    <2> HIDE DEF S
    <2> QED BY <1>0, <2>1, <2>2
  <1>4. PICK x \in S : \A y \in S : x >= y
    <2> HIDE DEF S
    <2> QED BY <1>3, GreatestIn
  <1>5. PICK l \in T : Len(l) = x
    BY <1>4
  <1>6. \A n \in T : Len(n) <= Len(l)
    <2> TAKE n \in T
    <2>1. Len(n) \in S /\ Len(n) \in Nat /\ x \in Nat
      BY <1>2, <1>3
    <2> HIDE DEF S
    <2> QED BY <1>4, <1>5, <2>1
  <1> HIDE DEF Starts
  <1>7. \E c \in Prompt!Lines : Starts(c) /\ \A n \in Prompt!Lines : Starts(n) => Len(n) <= Len(c)
    BY <1>t, <1>5, <1>6
  <1>8. Prompt!Common(m) \in Prompt!Lines
    BY <1>7 DEF Prompt!Common, Starts
  <1> QED BY <1>8, PromptLine

\* A candidate in place of the last, where it fits.
LEMMA ReplaceFits ==
  ASSUME PromptEdit, NEW v, IsPromptLine(v), NEW i \in Nat, NEW j \in Nat, i <= j, Prompt!Fits(v, i, j),
         NEW t \in Seq(Char), Len(t) <= 1, Prompt!Replace(v, i, j, t), overflow' = overflow
  PROVE  PromptEdit'
  <1>1. /\ line \in Seq(Char) /\ Len(line) \in Nat /\ Length \in Nat /\ overflow \in BOOLEAN
        /\ v \in Seq(Char) /\ Len(v) \in Nat /\ Len(t) \in Nat
    BY PromptSizes DEF PromptEdit, IsPromptLine
  <1>2. CASE j > Len(line)
    BY <1>1, <1>2, PromptLine DEF Prompt!Replace, PromptEdit
  <1>3. CASE ~(j > Len(line))
    <2> DEFINE a == SubSeq(line, 1, i)
               b == SubSeq(line, j + 1, Len(line))
               c == a \o v
               d == c \o t
    <2>1. line' = d \o b /\ pos' = i + Len(v) + Len(t)
      BY <1>3 DEF Prompt!Replace
    <2>2. i \in 0 .. Len(line) /\ j \in 0 .. Len(line)
      BY <1>1, <1>3
    <2>3. a \in Seq(Char) /\ Len(a) = i /\ b \in Seq(Char) /\ Len(b) = Len(line) - j
      BY <1>1, <2>2, Parted
    <2> HIDE DEF a, b
    <2>4. c \in Seq(Char) /\ Len(c) = i + Len(v)
      BY <1>1, <2>3, Joined
    <2> HIDE DEF c
    <2>5. d \in Seq(Char) /\ Len(d) = Len(c) + Len(t)
      BY <1>1, <2>4, Joined
    <2> HIDE DEF d
    <2>6. line' \in Seq(Char) /\ Len(line') = Len(d) + Len(b)
      BY <2>1, <2>3, <2>5, Joined
    <2>7. pos' = i + Len(v) + Len(t)
      BY <2>1
    <2>8. i + Len(v) + Len(line) - j + 2 < Length
      BY <1>1 DEF Prompt!Fits
    <2>9. Len(line') = i + Len(v) + Len(t) + (Len(line) - j)
      BY <1>1, <2>2, <2>3, <2>4, <2>5, <2>6
    <2> QED BY <1>1, <2>2, <2>6, <2>7, <2>8, <2>9 DEF PromptEdit, IsPromptLine
  <1> QED BY <1>2, <1>3

LEMMA TabFits ==
  ASSUME PromptTypes, NEW m \in Commands, NEW i \in 0 .. Len(line), NEW j \in 0 .. Len(line), Prompt!Tab(m, i, j)
  PROVE  PromptEdit' /\ IsCycle(cycle')
  <1> DEFINE fits == Prompt!Fits(Prompt!Common(m), i, j)
             v == Prompt!Common(m)
  <1>1. /\ IsPromptLine(v) /\ PromptEdit /\ Len(line) \in Nat /\ i \in Nat /\ j \in Nat /\ i <= j /\ Len(v) \in Nat
        /\ overflow' = overflow
    <2>1. IsPromptLine(v)
      BY CommonTyped
    <2>2. Len(line) \in Nat /\ PromptEdit /\ pos \in 0 .. Len(line)
      BY DEF PromptTypes, PromptEdit, IsPromptLine
    <2>3. i <= pos /\ pos <= j /\ overflow' = overflow
      BY DEF Prompt!Tab
    <2> HIDE DEF v
    <2> QED BY <2>1, <2>2, <2>3 DEF IsPromptLine
  <1>2. PromptEdit'
    <2>1. CASE ~fits
      <3>1. line' = line /\ pos' = pos
        BY <2>1 DEF Prompt!Tab
      <3> QED BY <1>1, <3>1 DEF PromptEdit, IsPromptLine
    <2>2. CASE fits
      <3>1. PICK t \in (IF Len(m) = 1 /\ j = Len(line) THEN {<<c>> : c \in Char} ELSE {<<>>}) : Prompt!Replace(v, i, j, t)
        BY <2>2, Zenon DEF Prompt!Tab
      <3>2. t \in Seq(Char) /\ Len(t) <= 1
        <4>1. t = <<>> \/ \E c \in Char : t = <<c>>
          BY <3>1
        <4>2. <<>> \in Seq(Char) /\ Len(<<>>) <= 1 /\ \A c \in Char : <<c>> \in Seq(Char) /\ Len(<<c>>) <= 1
          OBVIOUS
        <4> QED BY <4>1, <4>2, Zenon
      <3> HIDE DEF v
      <3>3. Prompt!Fits(v, i, j)
        BY <2>2 DEF v
      <3> QED BY <1>1, <3>1, <3>2, <3>3, ReplaceFits
    <2> QED BY <2>1, <2>2
  <1>3. IsCycle(cycle')
    <2>1. CASE cycle' = Prompt!NoCycle
      BY <2>1 DEF Prompt!NoCycle, IsCycle
    <2>2. CASE Len(m) # 1 /\ cycle' = [on |-> TRUE, selected |-> FALSE, matches |-> m, index |-> 0,
                                      start |-> i, end |-> IF fits THEN i + Len(v) ELSE j]
      <3>1. m \in Seq(Prompt!Lines) /\ Len(m) > 0
        BY PromptSizes
      <3> DEFINE k == IF fits THEN i + Len(v) ELSE j
      <3>2. k \in Nat /\ i <= k
        <4> HIDE DEF fits, v
        <4> QED BY <1>1
      <3> HIDE DEF k, v
      <3>3. cycle' = [on |-> TRUE, selected |-> FALSE, matches |-> m, index |-> 0, start |-> i, end |-> k]
        BY <2>2 DEF k, v
      <3> QED BY <1>1, <3>1, <3>2, <3>3 DEF IsCycle
    <2> QED BY <2>1, <2>2, Zenon DEF Prompt!Tab
  <1> QED BY <1>2, <1>3

LEMMA CycleFits ==
  ASSUME PromptTypes, Prompt!Cycle
  PROVE  PromptEdit' /\ IsCycle(cycle')
  <1>1. /\ PromptEdit /\ IsCycle(cycle) /\ cycle.on /\ overflow' = overflow
    BY DEF PromptTypes, Prompt!Cycle
  <1>2. /\ cycle.matches \in Seq(Prompt!Lines) /\ cycle.index \in Nat /\ cycle.index < Len(cycle.matches)
        /\ cycle.start \in Nat /\ cycle.end \in Nat /\ cycle.start <= cycle.end
        /\ DOMAIN cycle = {"on", "selected", "matches", "index", "start", "end"}
    BY <1>1 DEF IsCycle
  <1>3. PICK k \in Prompt!Chosen(cycle) :
          LET value == cycle.matches[k + 1]
          IN IF Prompt!Fits(value, cycle.start, cycle.end)
             THEN /\ Prompt!Replace(value, cycle.start, cycle.end, <<>>)
                  /\ cycle' = [cycle EXCEPT !.index = k, !.selected = TRUE, !.end = cycle.start + Len(value)]
             ELSE UNCHANGED <<line, pos, cycle>>
    BY Zenon DEF Prompt!Cycle
  <1>4. k \in Nat /\ k < Len(cycle.matches) /\ k + 1 \in 1 .. Len(cycle.matches)
    <2>1. \A a \in Nat, n \in Nat \ {0} : a % n \in 0 .. n - 1
      BY SMT
    <2>2. PICK n \in Nat \ {0} : n = Len(cycle.matches) /\ cycle.index < n /\ cycle.index + n - 1 \in Nat /\ cycle.index + 1 \in Nat
      BY <1>2
    <2> DEFINE a == cycle.index + 1
               b == cycle.index + n - 1
    <2>3. a % n \in 0 .. n - 1 /\ b % n \in 0 .. n - 1
      <3>1. a \in Nat /\ b \in Nat
        BY <2>2
      <3> HIDE DEF a, b
      <3> QED BY <2>1, <3>1
    <2>4. k \in {a % n, b % n, 0, n - 1}
      <3>1. k \in (IF cycle.selected THEN {a % n, b % n} ELSE {0, n - 1})
        BY <1>3, <2>2, Zenon DEF Prompt!Chosen
      <3> HIDE DEF a, b
      <3> QED BY <3>1
    <2> HIDE DEF a, b
    <2>5. k \in 0 .. n - 1
      BY <2>3, <2>4
    <2> QED BY <2>2, <2>5
  <1> DEFINE v == cycle.matches[k + 1]
  <1>5. v \in Prompt!Lines
    BY <1>2, <1>4
  <1> HIDE DEF v
  <1>6. IsPromptLine(v) /\ Len(v) \in Nat
    BY <1>5, PromptLine DEF IsPromptLine
  <1>7. CASE UNCHANGED <<line, pos, cycle>>
    BY <1>1, <1>7 DEF PromptEdit, IsPromptLine, IsCycle
  <1>8. CASE /\ Prompt!Fits(v, cycle.start, cycle.end)
             /\ Prompt!Replace(v, cycle.start, cycle.end, <<>>)
             /\ cycle' = [cycle EXCEPT !.index = k, !.selected = TRUE, !.end = cycle.start + Len(v)]
    <2>1. <<>> \in Seq(Char) /\ Len(<<>>) <= 1
      OBVIOUS
    <2>2. PromptEdit'
      BY <1>1, <1>2, <1>6, <1>8, <2>1, ReplaceFits
    <2>3. IsCycle(cycle')
      <3>1. /\ DOMAIN cycle' = DOMAIN cycle /\ cycle'.on = cycle.on /\ cycle'.matches = cycle.matches
            /\ cycle'.index = k /\ cycle'.start = cycle.start /\ cycle'.end = cycle.start + Len(v)
        BY <1>2, <1>8
      <3>2. cycle.start + Len(v) \in Nat /\ cycle.start <= cycle.start + Len(v)
        BY <1>2, <1>6
      <3> QED BY <1>1, <1>2, <1>4, <3>1, <3>2 DEF IsCycle
    <2> QED BY <2>2, <2>3
  <1> QED BY <1>3, <1>7, <1>8 DEF v

\* A key that draws the prompt again.
LEMMA RedrawnTypes ==
  ASSUME PromptEdit', PromptPast', PromptMode', IsCycle(cycle'), Prompt!Drawn
  PROVE  PromptTypes'
  <1>1. hist' \in Seq(Remembered)
    BY DEF PromptPast
  <1> QED BY <1>1, DrawnContinues DEF PromptTypes

\* One at the prompt, which stays there and ends the cycle.
LEMMA PlainTypes ==
  ASSUME PromptTypes, PromptEdit', PromptPast', mode' = mode, at' = at, Prompt!Plain
  PROVE  PromptTypes'
  <1>1. mode = "prompt" /\ pasting' = pasting /\ cycle' = Prompt!NoCycle /\ Prompt!Drawn
    BY DEF Prompt!Plain, Prompt!AtPrompt
  <1>2. PromptMode'
    BY <1>1 DEF PromptTypes, PromptMode
  <1>3. IsCycle(cycle')
    BY <1>1 DEF IsCycle, Prompt!NoCycle
  <1> QED BY <1>1, <1>2, <1>3, RedrawnTypes

LEMMA PastStays == ASSUME PromptTypes, UNCHANGED Prompt!past PROVE PromptPast'
  BY DEF PromptTypes, PromptPast, Prompt!past, IsPromptLine
LEMMA EditStays == ASSUME PromptTypes, UNCHANGED <<line, pos, overflow>> PROVE PromptEdit'
  BY DEF PromptTypes, PromptEdit, IsPromptLine

LEMMA TypingTypes ==
  ASSUME PromptTypes, \/ \E c \in Char : Prompt!Type(c)
                      \/ Prompt!Change \/ Prompt!Accept \/ Prompt!KillLine
  PROVE  PromptTypes'
  <1>1. Prompt!Plain /\ mode' = mode /\ at' = at /\ UNCHANGED Prompt!past
    BY DEF Prompt!Type, Prompt!Change, Prompt!Accept, Prompt!KillLine
  <1>2. PromptEdit /\ IsPromptLine(suggestion) /\ overflow \in BOOLEAN
    BY DEF PromptTypes, PromptOffer, PromptEdit
  <1>3. PromptEdit'
    <2>1. CASE \E c \in Char : Prompt!Type(c)
      BY <1>2, <2>1, InsertFits DEF Prompt!Type
    <2>2. CASE Prompt!Change
      BY <1>2, <2>2, ChangeFits
    <2>3. CASE Prompt!Accept
      BY <1>2, <2>3, ShowFits DEF Prompt!Accept
    <2>4. CASE Prompt!KillLine
      <3>1. Prompt!Show(<<>>) /\ overflow' \in BOOLEAN
        BY <2>4 DEF Prompt!KillLine
      <3> QED BY <3>1, PromptSizes, ShowFits
    <2> QED BY <2>1, <2>2, <2>3, <2>4
  <1> QED BY <1>1, <1>3, PastStays, PlainTypes

LEMMA BrowseTypes == ASSUME PromptTypes, Prompt!Up \/ Prompt!Down PROVE PromptTypes'
  <1>0. /\ PromptEdit /\ PromptPast /\ overflow' = overflow /\ overflow \in BOOLEAN /\ hist' = hist
        /\ Prompt!Plain /\ mode' = mode /\ at' = at
    BY DEF PromptTypes, PromptEdit, Prompt!Up, Prompt!Down
  <1>1. Len(hist) \in Nat /\ nav \in 0 .. Len(hist) /\ IsPromptLine(line) /\ IsPromptLine(saved)
    BY <1>0 DEF PromptPast, PromptEdit
  <1>2. CASE Prompt!Up
    <2>1. IsPromptLine(saved')
      BY <1>1, <1>2 DEF Prompt!Up, Prompt!Keeps
    <2>2. CASE Prompt!CanGoUp
      <3>1. nav' = nav + 1 /\ Prompt!Show(Prompt!Entry(Len(hist) - nav - 1)) /\ nav < Len(hist)
        BY <1>2, <2>2 DEF Prompt!Up, Prompt!CanGoUp
      <3>2. PromptEdit'
        <4>1. Len(hist) - nav - 1 \in Int
          BY <1>1
        <4> QED BY <1>0, <3>1, <4>1, EntryTyped, ShowFits
      <3>3. PromptPast'
        BY <1>0, <1>1, <2>1, <3>1 DEF PromptPast
      <3> QED BY <1>0, <3>2, <3>3, PlainTypes
    <2>3. CASE ~Prompt!CanGoUp
      <3>1. UNCHANGED <<nav, line, pos>>
        BY <1>2, <2>3 DEF Prompt!Up
      <3>2. PromptPast'
        BY <1>0, <1>1, <2>1, <3>1 DEF PromptPast
      <3> QED BY <1>0, <3>1, <3>2, EditStays, PlainTypes
    <2> QED BY <2>2, <2>3
  <1>3. CASE Prompt!Down
    <2>1. saved' = saved
      BY <1>3 DEF Prompt!Down
    <2>2. CASE nav > 0
      <3>1. nav' = nav - 1 /\ Prompt!Show(IF nav = 1 THEN saved ELSE Prompt!Entry(Len(hist) - nav + 1))
        BY <1>3, <2>2 DEF Prompt!Down
      <3>2. PromptEdit'
        <4>1. Len(hist) - nav + 1 \in Int
          BY <1>1
        <4>2. IsPromptLine(IF nav = 1 THEN saved ELSE Prompt!Entry(Len(hist) - nav + 1))
          BY <1>0, <1>1, <4>1, EntryTyped
        <4> QED BY <1>0, <3>1, <4>2, ShowFits
      <3>3. PromptPast'
        BY <1>0, <1>1, <2>1, <2>2, <3>1 DEF PromptPast
      <3> QED BY <1>0, <3>2, <3>3, PlainTypes
    <2>3. CASE ~(nav > 0)
      <3>1. UNCHANGED <<nav, line, pos>>
        BY <1>3, <2>3 DEF Prompt!Down
      <3>2. PromptPast'
        BY <1>0, <1>1, <2>1, <3>1 DEF PromptPast
      <3> QED BY <1>0, <3>1, <3>2, EditStays, PlainTypes
    <2> QED BY <2>2, <2>3
  <1> QED BY <1>2, <1>3

LEMMA SubmitTypes == ASSUME PromptTypes, Prompt!Enter \/ Prompt!CtrlC PROVE PromptTypes'
  <1>0. Prompt!Plain /\ mode' = mode /\ at' = at
    BY DEF Prompt!Enter, Prompt!CtrlC
  <1>1. CASE Prompt!Enter
    <2>1. CASE Prompt!EnterWith(line)
      BY <1>0, <2>1, EnterFits, PlainTypes
    <2>2. CASE Prompt!Refused(line) /\ UNCHANGED <<line, pos>>
      BY <1>0, <2>2, EditStays, PastStays, PlainTypes DEF Prompt!Refused
    <2> QED BY <1>1, <2>1, <2>2 DEF Prompt!Enter
  <1>2. CASE Prompt!CtrlC
    <2>1. Prompt!Show(<<>>) /\ overflow' \in BOOLEAN /\ UNCHANGED Prompt!past
      BY <1>2 DEF Prompt!CtrlC, Prompt!Fresh
    <2>2. PromptEdit'
      BY <2>1, PromptSizes, ShowFits
    <2> QED BY <1>0, <2>1, <2>2, PastStays, PlainTypes
  <1> QED BY <1>1, <1>2

LEMMA SearchTypes ==
  ASSUME PromptTypes, Prompt!Search \/ Prompt!SearchKey \/ Prompt!SearchAccept \/ Prompt!SearchCancel
  PROVE  PromptTypes'
  <1>0. /\ PromptEdit /\ PromptPast /\ PromptMode /\ IsCycle(cycle) /\ overflow \in BOOLEAN /\ overflow' = overflow
        /\ Len(hist) \in Nat /\ Len(hist) <= Most /\ Most \in Nat /\ IsPromptLine(line) /\ IsPromptLine(saved)
        /\ hist \in Seq(Remembered)
    BY PromptSizes DEF PromptTypes, PromptEdit, PromptPast, Prompt!Search, Prompt!SearchKey, Prompt!SearchAccept,
                       Prompt!SearchCancel, Prompt!edit
  <1>1. CASE Prompt!Search
    <2>1. hist' = hist /\ nav' = nav /\ saved' = line /\ mode' = "search" /\ Prompt!Drawn /\ cycle' = Prompt!NoCycle
          /\ pasting' = pasting /\ Prompt!Newest
      BY <1>1 DEF Prompt!Search, Prompt!SearchKeeps, Prompt!Plain
    <2>2. PromptPast'
      BY <1>0, <2>1 DEF PromptPast
    <2>3. IsCycle(cycle')
      BY <2>1 DEF IsCycle, Prompt!NoCycle
    <2>4. PromptEdit' /\ at' \in 0 .. Most
      <3>1. CASE hist = <<>>
        BY <1>0, <2>1, <3>1, EditStays DEF Prompt!Newest
      <3>2. CASE hist # <<>>
        <4>1. Len(hist) > 0
          BY <1>0, <3>2
        <4>2. at' = Len(hist) - 1 /\ Prompt!Show(Prompt!Entry(Len(hist) - 1)) /\ Len(hist) - 1 \in Int
          BY <1>0, <2>1, <3>2 DEF Prompt!Newest
        <4> QED BY <1>0, <4>1, <4>2, EntryTyped, ShowFits
      <3> QED BY <3>1, <3>2
    <2>5. PromptMode'
      BY <1>0, <2>1, <2>4 DEF PromptMode
    <2> QED BY <2>1, <2>2, <2>3, <2>4, <2>5, RedrawnTypes
  <1>2. CASE Prompt!SearchKey
    <2>1. /\ UNCHANGED Prompt!past /\ mode' = mode /\ mode = "search" /\ cycle' = cycle /\ pasting' = pasting
          /\ Prompt!Drawn /\ (Prompt!Older(at) \/ Prompt!Older(Len(hist)))
      BY <1>2 DEF Prompt!SearchKey, Prompt!tab
    <2>2. ASSUME NEW k \in 0 .. Most, Prompt!Older(k) PROVE PromptEdit' /\ at' \in 0 .. Most
      <3>1. ASSUME NEW i \in 0 .. k - 1, at' = i /\ Prompt!Show(Prompt!Entry(i)) PROVE PromptEdit' /\ at' \in 0 .. Most
        BY <1>0, <3>1, EntryTyped, ShowFits
      <3>2. CASE at' = k /\ UNCHANGED <<line, pos>>
        BY <1>0, <3>2, EditStays
      <3> QED BY <2>2, <3>1, <3>2 DEF Prompt!Older
    <2>3. at \in 0 .. Most /\ Len(hist) \in 0 .. Most
      BY <1>0 DEF PromptMode
    <2>4. PromptEdit' /\ at' \in 0 .. Most
      BY <2>1, <2>2, <2>3
    <2>5. PromptMode' /\ IsCycle(cycle')
      BY <1>0, <2>1, <2>4 DEF PromptMode
    <2> QED BY <2>1, <2>4, <2>5, PastStays, RedrawnTypes
  <1>3. CASE Prompt!SearchAccept \/ Prompt!SearchCancel
    <2>1. /\ UNCHANGED Prompt!past /\ mode' = "prompt" /\ at' = 0 /\ cycle' = cycle /\ pasting' = pasting /\ Prompt!Drawn
      BY <1>3 DEF Prompt!SearchAccept, Prompt!SearchCancel, Prompt!tab
    <2>2. PromptMode' /\ IsCycle(cycle')
      BY <1>0, <2>1 DEF PromptMode
    <2>3. PromptEdit'
      <3>1. UNCHANGED <<line, pos, overflow>> \/ Prompt!Show(saved)
        BY <1>3 DEF Prompt!SearchAccept, Prompt!SearchCancel, Prompt!edit
      <3> QED BY <1>0, <3>1, ShowFits, EditStays
    <2> QED BY <2>1, <2>2, <2>3, PastStays, RedrawnTypes
  <1> QED BY <1>1, <1>2, <1>3

LEMMA DialogTypes ==
  ASSUME PromptTypes, Prompt!Dialog \/ Prompt!DialogMove \/ Prompt!DialogCancel \/ Prompt!DialogLoad \/ Prompt!DialogRun
  PROVE  PromptTypes'
  <1>0. /\ PromptEdit /\ PromptPast /\ PromptMode /\ IsCycle(cycle) /\ PromptOffer /\ overflow \in BOOLEAN
        /\ Len(hist) \in Nat /\ Len(hist) <= Most /\ Most \in Nat
        /\ hist \in Seq(Remembered) /\ at \in Int
    BY PromptSizes DEF PromptTypes, PromptEdit, PromptPast, PromptMode
  <1>1. CASE Prompt!Dialog \/ Prompt!DialogMove
    <2>1. /\ UNCHANGED <<line, pos, overflow>> /\ UNCHANGED Prompt!past /\ cycle' = cycle /\ suggestion' = suggestion
          /\ pasting' = pasting
      BY <1>1 DEF Prompt!Dialog, Prompt!DialogMove, Prompt!edit, Prompt!tab
    <2>2. mode' = "dialog" /\ at' \in 0 .. Len(hist) - 1
      <3>1. CASE Prompt!Dialog
        <4>1. hist # <<>> /\ mode' = "dialog" /\ at' = Len(hist) - 1
          BY <3>1 DEF Prompt!Dialog
        <4>2. Len(hist) > 0
          BY <1>0, <4>1
        <4> QED BY <1>0, <4>1, <4>2
      <3>2. CASE Prompt!DialogMove
        BY <3>2 DEF Prompt!DialogMove
      <3> QED BY <1>1, <3>1, <3>2
    <2>3. PromptMode'
      <3>1. hist' = hist
        BY <2>1 DEF Prompt!past
      <3> QED BY <1>0, <2>1, <2>2, <3>1 DEF PromptMode
    <2>4. PromptOffer'
      BY <1>0, <2>1 DEF PromptOffer, Prompt!SuggestionContinues
    <2> QED BY <1>0, <2>1, <2>3, <2>4, EditStays, PastStays DEF PromptTypes
  <1>2. CASE Prompt!DialogCancel \/ Prompt!DialogLoad
    <2>1. /\ UNCHANGED Prompt!past /\ mode' = "prompt" /\ at' = 0 /\ cycle' = cycle /\ pasting' = pasting /\ Prompt!Drawn
      BY <1>2 DEF Prompt!DialogCancel, Prompt!DialogLoad, Prompt!Leave, Prompt!tab
    <2>2. PromptMode' /\ IsCycle(cycle')
      BY <1>0, <2>1 DEF PromptMode
    <2>3. PromptEdit'
      <3>1. UNCHANGED <<line, pos, overflow>> \/ (Prompt!Show(Prompt!Entry(at)) /\ overflow' = overflow)
        BY <1>2 DEF Prompt!DialogCancel, Prompt!DialogLoad, Prompt!edit
      <3> QED BY <1>0, <3>1, EntryTyped, ShowFits, EditStays
    <2> QED BY <2>1, <2>2, <2>3, PastStays, RedrawnTypes
  <1>3. CASE Prompt!DialogRun
    <2>1. /\ mode' = "prompt" /\ at' = 0 /\ cycle' = Prompt!NoCycle /\ pasting' = pasting /\ Prompt!Drawn
      BY <1>3 DEF Prompt!DialogRun, Prompt!Leave
    <2>2. PromptMode' /\ IsCycle(cycle')
      BY <1>0, <2>1 DEF PromptMode, IsCycle, Prompt!NoCycle
    <2>3. PromptEdit' /\ PromptPast'
      <3>1. CASE Prompt!EnterWith(Prompt!Entry(at))
        BY <3>1, EnterFits
      <3>2. CASE Prompt!Refused(Prompt!Entry(at)) /\ Prompt!Show(Prompt!Entry(at))
        <4>1. UNCHANGED Prompt!past /\ overflow' = overflow
          BY <3>2 DEF Prompt!Refused
        <4> QED BY <1>0, <3>2, <4>1, PastStays, EntryTyped, ShowFits
      <3> QED BY <1>3, <3>1, <3>2 DEF Prompt!DialogRun
    <2> QED BY <2>1, <2>2, <2>3, RedrawnTypes
  <1> QED BY <1>1, <1>2, <1>3

LEMMA TabTypes ==
  ASSUME PromptTypes,
         \/ \E m \in Commands, i, j \in 0 .. Len(line) : Prompt!Tab(m, i, j)
         \/ Prompt!Cycle
  PROVE  PromptTypes'
  <1>1. /\ UNCHANGED Prompt!past /\ mode' = mode /\ at' = at /\ pasting' = pasting /\ Prompt!Drawn
    BY DEF Prompt!Tab, Prompt!Cycle
  <1>2. PromptMode'
    BY <1>1 DEF PromptTypes, PromptMode, Prompt!past
  <1>3. PromptEdit' /\ IsCycle(cycle')
    BY TabFits, CycleFits
  <1> QED BY <1>1, <1>2, <1>3, PastStays, RedrawnTypes

LEMMA PasteTypes ==
  ASSUME PromptTypes, Prompt!PasteBegin \/ Prompt!PasteEnd \/ \E c \in Char : Prompt!PasteChar(c)
  PROVE  PromptTypes'
  <1>1. UNCHANGED Prompt!past /\ mode' = mode /\ at' = at /\ pasting' \in BOOLEAN /\ cycle' = cycle
    BY DEF Prompt!PasteBegin, Prompt!PasteEnd, Prompt!PasteChar, Prompt!tab, PromptTypes, PromptMode
  <1>2. PromptMode' /\ IsCycle(cycle')
    BY <1>1 DEF PromptTypes, PromptMode, Prompt!past
  <1>3. CASE Prompt!PasteBegin \/ \E c \in Char : Prompt!PasteChar(c)
    <2>1. PromptEdit'
      <3>1. CASE Prompt!PasteBegin
        BY <3>1, EditStays DEF Prompt!PasteBegin, Prompt!edit
      <3>2. CASE \E c \in Char : Prompt!PasteChar(c)
        BY <3>2, InsertFits DEF Prompt!PasteChar, PromptTypes
      <3> QED BY <1>3, <3>1, <3>2
    <2>2. pasting' /\ suggestion' = suggestion
      BY <1>3 DEF Prompt!PasteBegin, Prompt!PasteChar
    <2>3. PromptOffer'
      BY <2>2 DEF PromptTypes, PromptOffer, Prompt!SuggestionContinues
    <2> QED BY <1>1, <1>2, <2>1, <2>3, PastStays DEF PromptTypes
  <1>4. CASE Prompt!PasteEnd
    <2>1. UNCHANGED <<line, pos, overflow>> /\ Prompt!Drawn
      BY <1>4 DEF Prompt!PasteEnd, Prompt!edit
    <2> QED BY <1>1, <1>2, <2>1, EditStays, PastStays, RedrawnTypes
  <1> QED BY <1>3, <1>4

LEMMA PromptTypesStep == ASSUME PromptTypes, Prompt!Next PROVE PromptTypes'
  BY TypingTypes, BrowseTypes, SubmitTypes, SearchTypes, DialogTypes, TabTypes, PasteTypes, Zenon DEF Prompt!Next

LEMMA PromptTypesInit == Prompt!Init => PromptTypes
  <1> SUFFICES ASSUME Prompt!Init PROVE PromptTypes
    OBVIOUS
  <1>0. /\ line = <<>> /\ pos = 0 /\ overflow = FALSE /\ hist = <<>> /\ nav = 0 /\ saved = <<>>
        /\ suggestion = <<>> /\ pasting = FALSE /\ IsPromptLine(<<>>) /\ Len(<<>>) = 0
    BY PromptSizes DEF Prompt!Init
  <1>0a. IsPromptLine(line) /\ IsPromptLine(saved) /\ IsPromptLine(suggestion) /\ Len(line) = 0 /\ Len(hist) = 0
    BY <1>0, Zenon
  <1>0b. mode = "prompt" /\ at = 0 /\ pos = 0 /\ nav = 0
    BY DEF Prompt!Init
  <1>0d. overflow \in BOOLEAN /\ pasting \in BOOLEAN
    BY Zenon DEF Prompt!Init
  <1>0c. Most \in Nat
    BY PromptSizes
  <1>1. PromptEdit
    BY <1>0a, <1>0b, <1>0d DEF PromptEdit
  <1>2. PromptPast
    <2>1. <<>> \in Seq(Remembered) /\ Len(<<>>) = 0
      OBVIOUS
    <2> QED BY <1>0, <1>0a, <1>0b, <1>0c, <2>1 DEF PromptPast
  <1>3. PromptMode
    BY <1>0b, <1>0c, <1>0d DEF PromptMode
  <1>4. IsCycle(cycle)
    BY DEF Prompt!Init, IsCycle, Prompt!NoCycle
  <1>5. PromptOffer
    BY <1>0, <1>0a DEF PromptOffer, Prompt!SuggestionContinues
  <1> QED BY <1>1, <1>2, <1>3, <1>4, <1>5 DEF PromptTypes
----------------------------------------------------------------------------
(* The event editor: rows of a terminal.                                    *)

\* What is left of a line around a cut, position by position.
CutOut(l, i, j) == SubSeq(l, 1, i) \o SubSeq(l, j + 1, Len(l))
LEMMA CutAt ==
  ASSUME NEW T, NEW l \in Seq(T), NEW i \in 0 .. Len(l), NEW j \in i .. Len(l)
  PROVE  /\ CutOut(l, i, j) \in Seq(T) /\ Len(CutOut(l, i, j)) = i + (Len(l) - j)
         /\ \A p \in 1 .. i + (Len(l) - j) : CutOut(l, i, j)[p] = IF p <= i THEN l[p] ELSE l[p - i + j]
  <1> DEFINE a == SubSeq(l, 1, i)
             b == SubSeq(l, j + 1, Len(l))
  <1>0. Len(l) \in Nat /\ j \in 0 .. Len(l) /\ i <= j
    OBVIOUS
  <1>1. a \in Seq(T) /\ Len(a) = i /\ b \in Seq(T) /\ Len(b) = Len(l) - j
    BY <1>0, Parted
  <1>2. \A p \in 1 .. i : a[p] = l[p]
    BY <1>0
  <1>3. \A p \in 1 .. Len(l) - j : b[p] = l[p + j]
    BY <1>0
  <1> HIDE DEF a, b
  <1>4. a \o b \in Seq(T) /\ Len(a \o b) = Len(a) + Len(b)
    BY <1>1, Joined
  <1>5. \A p \in 1 .. Len(a) + Len(b) : (a \o b)[p] = IF p <= Len(a) THEN a[p] ELSE b[p - Len(a)]
    BY <1>1
  <1>6. \A p \in 1 .. i + (Len(l) - j) : (a \o b)[p] = IF p <= i THEN l[p] ELSE l[p - i + j]
    <2> TAKE p \in 1 .. i + (Len(l) - j)
    <2>1. (a \o b)[p] = IF p <= i THEN a[p] ELSE b[p - i]
      BY <1>0, <1>1, <1>5
    <2>2. CASE p <= i
      BY <1>2, <2>1, <2>2
    <2>3. CASE ~(p <= i)
      <3>1. p - i \in 1 .. Len(l) - j /\ (p - i) + j = p - i + j
        BY <1>0, <2>3
      <3> QED BY <1>3, <2>1, <2>3, <3>1
    <2> QED BY <2>2, <2>3
  <1>7. CutOut(l, i, j) = a \o b
    BY DEF CutOut, a, b
  <1> HIDE DEF CutOut
  <1> QED BY <1>1, <1>4, <1>6, <1>7

LEMMA JoinedAt ==
  ASSUME NEW T, NEW a \in Seq(T), NEW b \in Seq(T)
  PROVE  \A p \in 1 .. Len(a) + Len(b) : (a \o b)[p] = IF p <= Len(a) THEN a[p] ELSE b[p - Len(a)]
  OBVIOUS

\* A line with something put in, position by position.
PutIn(l, i, x) == SubSeq(l, 1, i) \o <<x>> \o SubSeq(l, i + 1, Len(l))
LEMMA PutAt ==
  ASSUME NEW T, NEW l \in Seq(T), NEW i \in 0 .. Len(l), NEW x \in T
  PROVE  /\ PutIn(l, i, x) \in Seq(T) /\ Len(PutIn(l, i, x)) = Len(l) + 1
         /\ \A p \in 1 .. Len(l) + 1 : PutIn(l, i, x)[p] = IF p <= i THEN l[p] ELSE IF p = i + 1 THEN x ELSE l[p - 1]
  <1> DEFINE a == SubSeq(l, 1, i)
             b == SubSeq(l, i + 1, Len(l))
  <1>0. Len(l) \in Nat /\ i \in 0 .. Len(l)
    OBVIOUS
  <1>1. a \in Seq(T) /\ Len(a) = i /\ b \in Seq(T) /\ Len(b) = Len(l) - i
    BY <1>0, Parted
  <1>2. \A p \in 1 .. i : a[p] = l[p]
    BY <1>0
  <1>3. \A p \in 1 .. Len(l) - i : b[p] = l[p + i]
    BY <1>0
  <1>3a. <<x>> \in Seq(T) /\ Len(<<x>>) = 1 /\ <<x>>[1] = x
    OBVIOUS
  <1> HIDE DEF a, b
  <1>4. PICK m : m = <<x>> /\ m \in Seq(T) /\ Len(m) = 1 /\ m[1] = x
    BY <1>3a, Zenon
  <1>4a. PutIn(l, i, x) = a \o m \o b
    BY <1>4, Zenon DEF PutIn, a, b
  <1>4b. m \in Seq(T) /\ Len(m) = 1 /\ m[1] = x
    BY <1>4, Zenon
  <1> DEFINE c == a \o m
  <1>4c. i \in Nat /\ Len(a) \in Nat
    BY <1>0, <1>1
  <1>5. /\ c \in Seq(T) /\ Len(c) = i + 1
        /\ \A p \in 1 .. i + 1 : c[p] = IF p <= i THEN a[p] ELSE m[p - i]
    <2>1. c \in Seq(T) /\ Len(c) = Len(a) + Len(m)
      BY <1>1, <1>4b, Joined
    <2>2. \A p \in 1 .. Len(a) + Len(m) : c[p] = IF p <= Len(a) THEN a[p] ELSE m[p - Len(a)]
      BY <1>1, <1>4b, JoinedAt
    <2> HIDE DEF c
    <2>3. Len(a) = i /\ Len(m) = 1
      BY <1>1, <1>4b, Zenon
    <2>4. \A p \in 1 .. i + 1 : c[p] = IF p <= i THEN a[p] ELSE m[p - i]
      BY <2>2, <2>3, Zenon
    <2>5. Len(c) = i + 1
      BY <2>1, <2>3, Zenon
    <2> QED BY <2>1, <2>4, <2>5, Zenon
  <1> HIDE DEF c
  <1>6. /\ c \o b \in Seq(T) /\ Len(c \o b) = Len(l) + 1
        /\ \A p \in 1 .. Len(l) + 1 : (c \o b)[p] = IF p <= i + 1 THEN c[p] ELSE b[p - (i + 1)]
    <2>1. c \o b \in Seq(T) /\ Len(c \o b) = Len(c) + Len(b)
      BY <1>1, <1>5, Joined
    <2>2. \A p \in 1 .. Len(c) + Len(b) : (c \o b)[p] = IF p <= Len(c) THEN c[p] ELSE b[p - Len(c)]
      BY <1>1, <1>5, JoinedAt
    <2> DEFINE r == c \o b
    <2>3. /\ r \in Seq(T) /\ Len(r) = Len(c) + Len(b)
          /\ \A p \in 1 .. Len(c) + Len(b) : r[p] = IF p <= Len(c) THEN c[p] ELSE b[p - Len(c)]
      BY <2>1, <2>2, Zenon
    <2> HIDE DEF r
    <2>4. Len(c) = i + 1 /\ Len(c) + Len(b) = Len(l) + 1
      BY <1>0, <1>1, <1>5
    <2>5. /\ r \in Seq(T) /\ Len(r) = Len(l) + 1
          /\ \A p \in 1 .. Len(l) + 1 : r[p] = IF p <= i + 1 THEN c[p] ELSE b[p - (i + 1)]
      BY <2>3, <2>4, Zenon
    <2> QED BY <2>5, Zenon DEF r
  <1>7. ASSUME NEW p \in 1 .. Len(l) + 1
        PROVE  (c \o b)[p] = IF p <= i THEN l[p] ELSE IF p = i + 1 THEN x ELSE l[p - 1]
    <2>1. CASE p <= i
      <3>1. p \in 1 .. i /\ p \in 1 .. i + 1 /\ p <= i + 1
        BY <1>0, <2>1
      <3>2. (c \o b)[p] = c[p] /\ c[p] = a[p] /\ a[p] = l[p]
        BY <1>2, <1>5, <1>6, <2>1, <3>1, Zenon
      <3> QED BY <2>1, <3>2, Zenon
    <2>2. CASE p = i + 1
      <3>1. p \in 1 .. i + 1 /\ ~(p <= i) /\ p <= i + 1 /\ p - i = 1
        BY <1>0, <2>2
      <3>2. (c \o b)[p] = c[p] /\ c[p] = m[p - i]
        BY <1>5, <1>6, <3>1, Zenon
      <3>3. m[p - i] = x
        BY <1>4b, <3>1, Zenon
      <3> QED BY <2>2, <3>1, <3>2, <3>3, Zenon
    <2>3. CASE p > i + 1
      <3> DEFINE k == p - (i + 1)
      <3>1. ~(p <= i + 1) /\ ~(p <= i) /\ p # i + 1 /\ k \in 1 .. Len(l) - i /\ k + i = p - 1
        BY <1>0, <2>3
      <3>2. (c \o b)[p] = b[k]
        BY <1>6, <3>1
      <3> HIDE DEF k
      <3>3. b[k] = l[p - 1]
        BY <1>3, <3>1
      <3>4. (c \o b)[p] = l[p - 1] /\ ~(p <= i) /\ ~(p = i + 1)
        BY <3>1, <3>2, <3>3
      <3> QED BY <3>4, Zenon
    <2>4. p <= i \/ p = i + 1 \/ p > i + 1
      BY <1>0
    <2> QED BY <2>1, <2>2, <2>3, <2>4, Zenon
  <1> DEFINE r == c \o b
  <1>8. PutIn(l, i, x) = r
    BY <1>4a, Zenon DEF r, c
  <1>9. /\ r \in Seq(T) /\ Len(r) = Len(l) + 1
        /\ \A p \in 1 .. Len(l) + 1 : r[p] = IF p <= i THEN l[p] ELSE IF p = i + 1 THEN x ELSE l[p - 1]
    BY <1>6, <1>7 DEF r
  <1> HIDE DEF r
  <1> QED BY <1>8, <1>9, Zenon

\* Two rows of one length with the same characters are one.
LEMMA SameRow ==
  ASSUME NEW T, NEW s \in Seq(T), NEW t \in Seq(T), Len(s) = Len(t), \A p \in 1 .. Len(s) : s[p] = t[p]
  PROVE  s = t
  OBVIOUS

\* The row starts with the line.
Begins(l, t) == Len(l) <= Len(t) /\ \A p \in 1 .. Len(l) : t[p] = l[p]
LEMMA PrefixIs ==
  ASSUME NEW T, NEW l \in Seq(T), NEW t \in Seq(T)
  PROVE  Editor!IsPrefix(l, t) <=> Begins(l, t)
  <1> DEFINE a == SubSeq(l, 1, Len(l))
             b == SubSeq(t, 1, Len(l))
  <1>1. Len(l) \in Nat /\ Len(t) \in Nat /\ Len(l) \in 0 .. Len(l)
    OBVIOUS
  <1>2. a \in Seq(T) /\ Len(a) = Len(l) /\ \A p \in 1 .. Len(l) : a[p] = l[p]
    BY <1>1
  <1>3. CASE Len(l) <= Len(t)
    <2>1. Len(l) \in 0 .. Len(t)
      BY <1>1, <1>3
    <2>2. b \in Seq(T) /\ Len(b) = Len(l) /\ \A p \in 1 .. Len(l) : b[p] = t[p]
      BY <1>1, <2>1
    <2> HIDE DEF a, b
    <2>3. a = b <=> \A p \in 1 .. Len(l) : t[p] = l[p]
      <3>1. ASSUME a = b PROVE \A p \in 1 .. Len(l) : t[p] = l[p]
        BY <1>2, <2>2, <3>1
      <3>2. ASSUME \A p \in 1 .. Len(l) : t[p] = l[p] PROVE a = b
        BY <1>2, <2>2, <3>2, SameRow
      <3> QED BY <3>1, <3>2
    <2> QED BY <1>3, <2>3 DEF Editor!IsPrefix, Begins, a, b
  <1>4. CASE ~(Len(l) <= Len(t))
    BY <1>4 DEF Editor!IsPrefix, Begins
  <1> QED BY <1>3, <1>4

LEMMA OverIs ==
  ASSUME NEW T, Editor!Space \in T, NEW t \in Seq(T), NEW c \in Nat, NEW x \in Seq(T)
  PROVE  /\ Editor!Over(t, c, x) \in Seq(T)
         /\ Len(Editor!Over(t, c, x)) = IF Len(t) > c + Len(x) THEN Len(t) ELSE c + Len(x)
         /\ \A p \in 1 .. Len(Editor!Over(t, c, x)) :
              Editor!Over(t, c, x)[p] = IF p > c /\ p <= c + Len(x) THEN x[p - c]
                                        ELSE IF p <= Len(t) THEN t[p] ELSE Editor!Space
  <1> DEFINE n == IF Len(t) > c + Len(x) THEN Len(t) ELSE c + Len(x)
             Cell(i) == IF i \in c + 1 .. c + Len(x) THEN x[i - c] ELSE IF i <= Len(t) THEN t[i] ELSE Editor!Space
  <1>1. Len(t) \in Nat /\ Len(x) \in Nat /\ n \in Nat
    OBVIOUS
  <1>2. \A i \in 1 .. n : Cell(i) \in T
    <2> TAKE i \in 1 .. n
    <2>1. CASE i \in c + 1 .. c + Len(x)
      <3>1. i - c \in 1 .. Len(x)
        BY <1>1, <2>1
      <3>2. x[i - c] \in T
        BY <3>1
      <3> QED BY <2>1, <3>2
    <2>2. CASE i \notin c + 1 .. c + Len(x)
      BY <1>1, <2>2
    <2> QED BY <2>1, <2>2
  <1>3. Editor!Over(t, c, x) = [i \in 1 .. n |-> Cell(i)]
    BY Zenon DEF Editor!Over
  <1>4. \A p \in 1 .. n : Cell(p) = IF p > c /\ p <= c + Len(x) THEN x[p - c] ELSE IF p <= Len(t) THEN t[p] ELSE Editor!Space
    BY <1>1
  <1> HIDE DEF n, Cell
  <1>5. \A r : r = [i \in 1 .. n |-> Cell(i)] => r \in Seq(T) /\ Len(r) = n /\ \A p \in 1 .. n : r[p] = Cell(p)
    BY <1>1, <1>2
  <1>6. PICK r : r = Editor!Over(t, c, x) /\ r \in Seq(T) /\ Len(r) = n /\ \A p \in 1 .. n : r[p] = Cell(p)
    BY <1>3, <1>5
  <1>7. /\ r \in Seq(T) /\ Len(r) = n
        /\ \A p \in 1 .. Len(r) : r[p] = IF p > c /\ p <= c + Len(x) THEN x[p - c] ELSE IF p <= Len(t) THEN t[p] ELSE Editor!Space
    BY <1>4, <1>6
  <1> QED BY <1>6, <1>7 DEF n

LEMMA UpToIs ==
  ASSUME NEW T, Editor!Space \in T, NEW t \in Seq(T), NEW c \in Nat
  PROVE  /\ Editor!UpTo(t, c) \in Seq(T) /\ Len(Editor!UpTo(t, c)) = c
         /\ \A p \in 1 .. c : Editor!UpTo(t, c)[p] = IF p <= Len(t) THEN t[p] ELSE Editor!Space
  <1> DEFINE Cell(i) == IF i <= Len(t) THEN t[i] ELSE Editor!Space
  <1>1. Len(t) \in Nat /\ \A i \in 1 .. c : Cell(i) \in T
    OBVIOUS
  <1>2. Editor!UpTo(t, c) = [i \in 1 .. c |-> Cell(i)]
    BY Zenon DEF Editor!UpTo
  <1>3. \A p \in 1 .. c : Cell(p) = IF p <= Len(t) THEN t[p] ELSE Editor!Space
    OBVIOUS
  <1> HIDE DEF Cell
  <1>4. \A r : r = [i \in 1 .. c |-> Cell(i)] => r \in Seq(T) /\ Len(r) = c /\ \A p \in 1 .. c : r[p] = Cell(p)
    BY <1>1
  <1> QED BY <1>2, <1>3, <1>4

\* What is before the cursor stays, and the rest of the line is written again.
LEMMA Resumed ==
  ASSUME NEW T, Editor!Space \in T, NEW l \in Seq(T), NEW t \in Seq(T), NEW c \in 0 .. Len(l), c <= Len(t),
         \A p \in 1 .. c : t[p] = l[p]
  PROVE  Editor!UpTo(t, c) \o SubSeq(l, c + 1, Len(l)) = l
  <1> DEFINE a == Editor!UpTo(t, c)
             b == SubSeq(l, c + 1, Len(l))
  <1>0. Len(l) \in Nat /\ c \in Nat /\ c <= Len(l) /\ Len(t) \in Nat
    OBVIOUS
  <1>1. a \in Seq(T) /\ Len(a) = c /\ \A p \in 1 .. c : a[p] = l[p]
    BY <1>0, UpToIs
  <1>2. b \in Seq(T) /\ Len(b) = Len(l) - c /\ \A p \in 1 .. Len(l) - c : b[p] = l[p + c]
    BY <1>0
  <1> HIDE DEF a, b
  <1>3. /\ a \o b \in Seq(T) /\ Len(a \o b) = Len(l)
        /\ \A p \in 1 .. Len(l) : (a \o b)[p] = IF p <= c THEN a[p] ELSE b[p - c]
    BY <1>0, <1>1, <1>2
  <1>4. ASSUME NEW p \in 1 .. Len(l) PROVE (a \o b)[p] = l[p]
    <2>1. CASE p <= c
      BY <1>0, <1>1, <1>3, <2>1
    <2>2. CASE ~(p <= c)
      <3>1. p - c \in 1 .. Len(l) - c /\ (p - c) + c = p
        BY <1>0, <2>2
      <3> QED BY <1>2, <1>3, <2>2, <3>1
    <2> QED BY <2>1, <2>2
  <1> DEFINE r == a \o b
  <1>5. r \in Seq(T) /\ Len(r) = Len(l) /\ \A p \in 1 .. Len(r) : r[p] = l[p]
    BY <1>3, <1>4
  <1> HIDE DEF r
  <1>6. r = l
    BY <1>5, SameRow
  <1> QED BY <1>6 DEF r, a, b

----------------------------------------------------------------------------
(* The event editor: what each of its operations keeps.                     *)

Typeable(b) == b.visible \cup Editor!InCSI \cup {Editor!Space, "201"}
Held(b, echo) == IF echo THEN Typeable(b) ELSE Typeable(b) \cup {Editor!Secret}

Shape(d) ==
  DOMAIN d = {"line", "cursor", "ghost", "space", "history", "offset", "draft", "draftCursor", "journal",
              "escape", "number", "paste", "match", "overflow", "cr", "echo", "ansi", "shown", "col"}

Sized(b, l, c, echo) == l \in Seq(Held(b, echo)) /\ Len(l) <= b.capacity /\ c \in 0 .. Len(l)
Past(b, h, o) ==
  /\ h \in Seq(Seq(Typeable(b))) /\ Len(h) <= b.limit /\ o \in 0 .. Len(h)
  /\ \A i \in 1 .. Len(h) : Len(h[i]) <= b.capacity
\* A suggestion is drawn only after the whole of a line, and fits.
Offered(b, l, c, g, space, h, echo) ==
  /\ b.slots = 0 /\ b.ansi /\ echo /\ c = Len(l)
  /\ Len(l) + Len(g) + (IF space THEN 1 ELSE 0) <= b.capacity
  /\ l \o g \in Editor!Range(h) \cup Editor!Range(Names)
Offer(b, l, c, g, space, h, echo) ==
  /\ g \in Seq(Typeable(b)) /\ space \in BOOLEAN
  /\ IF g = <<>> THEN ~space ELSE Offered(b, l, c, g, space, h, echo)
Frames(b, echo) == {f \in [line : Seq(Held(b, echo)), cursor : Nat] : Len(f.line) <= b.capacity /\ f.cursor \in 0 .. Len(f.line)}
Steps(b, j, echo) == IF b.slots = 0 THEN j = Editor!Empty ELSE IsJournal(j, Frames(b, echo), b.slots)
Keys(b, d) ==
  /\ d.escape \in 0 .. 3 /\ (d.escape = 3 => d.number \in Editor!Numbers)
  /\ d.paste \in BOOLEAN /\ d.match \in 0 .. 3 /\ d.overflow \in BOOLEAN
  /\ d.cr \in BOOLEAN /\ d.echo \in BOOLEAN /\ d.ansi = b.ansi
Row(b, t, c, echo) == t \in Seq(Typeable(b)) /\ c \in Nat /\ (~echo => t = <<>>)
Good(b, d) ==
  /\ Shape(d) /\ Sized(b, d.line, d.cursor, d.echo) /\ Sized(b, d.draft, d.draftCursor, d.echo)
  /\ Past(b, d.history, d.offset) /\ Offer(b, d.line, d.cursor, d.ghost, d.space, d.history, d.echo)
  /\ Steps(b, d.journal, d.echo) /\ Keys(b, d) /\ Row(b, d.shown, d.col, d.echo)

\* The row shows the line.
Showing(ansi, echo, l, c, g, t, k) == echo => k = c /\ IF ansi THEN t = l \o g ELSE Begins(l, t)
Synced(d) == Showing(d.ansi, d.echo, d.line, d.cursor, d.ghost, d.shown, d.col)

Live(b, d) == Good(b, d) /\ Synced(d)

LEMMA BuildIs ==
  ASSUME NEW b \in Builds
  PROVE  /\ b.slots \in Nat /\ b.slots # 1 /\ b.limit \in Nat /\ b.capacity \in Nat /\ b.capacity > 0
         /\ b.ansi \in BOOLEAN /\ b.offers \in BOOLEAN
  BY EditorAssumption

LEMMA HeldIs ==
  ASSUME NEW b, NEW echo \in BOOLEAN
  PROVE  /\ Editor!Space \in Typeable(b) /\ Typeable(b) \subseteq Held(b, echo) /\ Held(b, TRUE) = Typeable(b)
         /\ \A l : l \in Seq(Typeable(b)) => l \in Seq(Held(b, echo))
  <1>1. Editor!Space \in Typeable(b) /\ Typeable(b) \subseteq Held(b, echo) /\ Held(b, TRUE) = Typeable(b)
    BY Zenon DEF Typeable, Held
  <1> DEFINE T == Typeable(b)
             H == Held(b, echo)
  <1>2. T \subseteq H
    BY <1>1
  <1> HIDE DEF T, H
  <1>3. \A l : l \in Seq(T) => l \in Seq(H)
    BY <1>2
  <1> QED BY <1>1, <1>3 DEF T, H

LEMMA WiderLine ==
  ASSUME NEW b, NEW echo \in BOOLEAN, NEW c, NEW l \in Seq(Typeable(b)), Len(l) <= b.capacity, c \in 0 .. Len(l)
  PROVE  Sized(b, l, c, echo)
  BY HeldIs, Zenon DEF Sized

LEMMA NoLine ==
  ASSUME NEW b \in Builds, NEW echo
  PROVE  Sized(b, <<>>, 0, echo)
  BY BuildIs DEF Sized

\* What a record says of its echo.
LEMMA GoodIs ==
  ASSUME NEW b, NEW d, Good(b, d)
  PROVE  /\ Shape(d) /\ Sized(b, d.line, d.cursor, d.echo) /\ Sized(b, d.draft, d.draftCursor, d.echo)
         /\ Past(b, d.history, d.offset) /\ Offer(b, d.line, d.cursor, d.ghost, d.space, d.history, d.echo)
         /\ Steps(b, d.journal, d.echo) /\ Keys(b, d) /\ Row(b, d.shown, d.col, d.echo)
         /\ d.echo \in BOOLEAN /\ d.ansi = b.ansi
  BY Zenon DEF Good, Keys

\* What a record has in common with another.
SameText(r, d) == r.line = d.line /\ r.cursor = d.cursor /\ r.draft = d.draft /\ r.draftCursor = d.draftCursor
SamePast(r, d) == r.history = d.history /\ r.offset = d.offset /\ r.journal = d.journal
SameOffer(r, d) == r.ghost = d.ghost /\ r.space = d.space
SameKeys(r, d) ==
  /\ r.escape = d.escape /\ r.number = d.number /\ r.paste = d.paste /\ r.match = d.match
  /\ r.overflow = d.overflow /\ r.cr = d.cr /\ r.echo = d.echo /\ r.ansi = d.ansi
LEMMA KeysSame == ASSUME NEW b, NEW d, NEW r, Keys(b, d), SameKeys(r, d) PROVE Keys(b, r)
  BY DEF Keys, SameKeys

\* Another row under the same editor.
Drawn(d, x, y) == [d EXCEPT !.shown = x, !.col = y]
LEMMA RowKeeps ==
  ASSUME NEW b, NEW d, Good(b, d), NEW x, NEW y, Row(b, x, y, d.echo)
  PROVE  /\ Good(b, Drawn(d, x, y)) /\ Drawn(d, x, y).shown = x /\ Drawn(d, x, y).col = y
         /\ SameText(Drawn(d, x, y), d) /\ SameOffer(Drawn(d, x, y), d)
         /\ SameKeys(Drawn(d, x, y), d) /\ SamePast(Drawn(d, x, y), d)
  <1> DEFINE r == Drawn(d, x, y)
  <1>1. Shape(d) /\ Keys(b, d)
    BY GoodIs, Zenon
  <1>2. /\ Shape(r) /\ SameText(r, d) /\ SameOffer(r, d) /\ SameKeys(r, d) /\ SamePast(r, d)
        /\ r.shown = x /\ r.col = y
    BY <1>1 DEF Drawn, Shape, SameText, SameOffer, SameKeys, SamePast
  <1> HIDE DEF r
  <1>3. Keys(b, r)
    BY <1>1, <1>2, KeysSame, Zenon
  <1>4. Good(b, r)
    BY <1>2, <1>3, GoodIs, Zenon DEF Good, SameText, SameOffer, SameKeys, SamePast
  <1> QED BY <1>2, <1>4, Zenon DEF r

\* The characters a record holds, when they are echoed.
LEMMA Echoed ==
  ASSUME NEW b, NEW d, Good(b, d), d.echo
  PROVE  /\ d.line \in Seq(Typeable(b)) /\ d.ghost \in Seq(Typeable(b)) /\ d.shown \in Seq(Typeable(b))
         /\ d.cursor \in 0 .. Len(d.line) /\ Len(d.line) \in Nat /\ d.echo = TRUE /\ d.col \in Nat
  <1>1. d.echo = TRUE /\ Held(b, TRUE) = Typeable(b)
    BY GoodIs, HeldIs, Zenon
  <1>2. d.line \in Seq(Typeable(b)) /\ d.cursor \in 0 .. Len(d.line)
    BY <1>1, GoodIs, Zenon DEF Sized
  <1>3. d.ghost \in Seq(Typeable(b)) /\ d.shown \in Seq(Typeable(b)) /\ d.col \in Nat
    BY GoodIs, Zenon DEF Offer, Row
  <1>4. Len(d.line) \in Nat
    BY <1>2
  <1> QED BY <1>1, <1>2, <1>3, <1>4, Zenon

\* ps_editor_redraw: the row shows the line again.
LEMMA RedrawKeeps ==
  ASSUME NEW b \in Builds, NEW d, Good(b, d)
  PROVE  Live(b, Editor!Redraw(d))
  <1>1. CASE ~d.echo
    BY <1>1, Zenon DEF Editor!Redraw, Live, Synced, Showing
  <1>2. CASE d.echo
    <2> DEFINE T == Typeable(b)
               o == Editor!Over(d.shown, 0, d.line)
               x == IF d.ansi THEN d.line \o d.ghost ELSE o
               r == Drawn(d, x, d.cursor)
    <2>1. d.line \in Seq(T) /\ d.ghost \in Seq(T) /\ d.shown \in Seq(T) /\ Editor!Space \in T
      BY <1>2, Echoed, HeldIs, Zenon
    <2>2. d.cursor \in Nat
      <3>1. d.cursor \in 0 .. Len(d.line) /\ Len(d.line) \in Nat
        BY <1>2, Echoed, Zenon
      <3> QED BY <3>1
    <2> HIDE DEF T
    <2>3. o \in Seq(T) /\ Begins(d.line, o)
      <3>1. Len(d.line) \in Nat /\ Len(d.shown) \in Nat /\ 0 \in Nat
        BY <2>1
      <3>2. /\ o \in Seq(T) /\ Len(o) = IF Len(d.shown) > 0 + Len(d.line) THEN Len(d.shown) ELSE 0 + Len(d.line)
            /\ \A p \in 1 .. Len(o) : o[p] = IF p > 0 /\ p <= 0 + Len(d.line) THEN d.line[p - 0]
                                             ELSE IF p <= Len(d.shown) THEN d.shown[p] ELSE Editor!Space
        BY <2>1, <3>1, OverIs
      <3> HIDE DEF o
      <3> QED BY <3>1, <3>2 DEF Begins
    <2>4. d.line \o d.ghost \in Seq(T)
      BY <2>1
    <2>5. x \in Seq(T) /\ IF d.ansi THEN x = d.line \o d.ghost ELSE Begins(d.line, x)
      BY <2>3, <2>4, Zenon
    <2>6. Row(b, x, d.cursor, d.echo)
      BY <1>2, <2>2, <2>5, Zenon DEF Row, T
    <2>7. Editor!Redraw(d) = r
      BY <1>2, Zenon DEF Editor!Redraw, Drawn, x
    <2> HIDE DEF x
    <2>8. /\ Good(b, r) /\ r.shown = x /\ r.col = d.cursor
          /\ SameText(r, d) /\ SameOffer(r, d) /\ SameKeys(r, d)
      BY <2>6, RowKeeps, SMT
    <2>9. Synced(r)
      BY <2>5, <2>8, Zenon DEF Synced, Showing, SameText, SameOffer, SameKeys
    <2> QED BY <2>7, <2>8, <2>9, Zenon DEF Live
  <1> QED BY <1>1, <1>2

LEMMA NewRowKeeps ==
  ASSUME NEW b \in Builds, NEW d, Good(b, d)
  PROVE  Good(b, Editor!NewRow(d)) /\ SameKeys(Editor!NewRow(d), d)
  <1>1. Row(b, <<>>, 0, d.echo)
    BY DEF Row
  <1> QED BY <1>1, RowKeeps, Zenon DEF Editor!NewRow, Drawn

----------------------------------------------------------------------------
(* The event editor: the suggestion and the keys that move.                 *)

\* A suggestion is only there on a terminal that can erase it, after the cursor.
LEMMA SuggestedIs ==
  ASSUME NEW b, NEW d, Good(b, d), d.ghost # <<>>
  PROVE  /\ b.slots = 0 /\ d.ansi /\ d.echo /\ d.echo = TRUE /\ d.cursor = Len(d.line)
         /\ d.space \in BOOLEAN
         /\ Len(d.line) + Len(d.ghost) + (IF d.space THEN 1 ELSE 0) <= b.capacity
         /\ d.line \o d.ghost \in Editor!Range(d.history) \cup Editor!Range(Names)
  <1>1. Offered(b, d.line, d.cursor, d.ghost, d.space, d.history, d.echo) /\ d.space \in BOOLEAN
    BY GoodIs, Zenon DEF Offer
  <1>2. d.ansi = b.ansi /\ d.echo \in BOOLEAN
    BY GoodIs, Zenon
  <1> QED BY <1>1, <1>2, Zenon DEF Offered

\* The row before the cursor of a terminal that shows the line.
LEMMA LeftOfCursor ==
  ASSUME NEW T, Editor!Space \in T, NEW l \in Seq(T), NEW g \in Seq(T)
  PROVE  Editor!UpTo(l \o g, Len(l)) = l
  <1> DEFINE t == l \o g
             r == Editor!UpTo(t, Len(l))
  <1>1. t \in Seq(T) /\ Len(l) \in Nat /\ Len(t) \in Nat /\ Len(l) <= Len(t) /\ \A p \in 1 .. Len(l) : t[p] = l[p]
    OBVIOUS
  <1> HIDE DEF t
  <1>2. r \in Seq(T) /\ Len(r) = Len(l) /\ \A p \in 1 .. Len(l) : r[p] = IF p <= Len(t) THEN t[p] ELSE Editor!Space
    BY <1>1, UpToIs
  <1> HIDE DEF r
  <1>3. \A p \in 1 .. Len(r) : r[p] = l[p]
    BY <1>1, <1>2
  <1>4. r = l
    BY <1>2, <1>3, SameRow
  <1> QED BY <1>4 DEF r, t

LEMMA EraseKeeps ==
  ASSUME NEW b \in Builds, NEW d, Live(b, d)
  PROVE  /\ Live(b, Editor!EraseGhost(d))
         /\ Editor!EraseGhost(d).ghost = <<>> /\ Editor!EraseGhost(d).space = FALSE
         /\ SameText(Editor!EraseGhost(d), d) /\ SamePast(Editor!EraseGhost(d), d) /\ SameKeys(Editor!EraseGhost(d), d)
  <1>0. Good(b, d) /\ Synced(d) /\ Shape(d)
    BY GoodIs, Zenon DEF Live
  <1>1. CASE d.ghost = <<>>
    <2>1. ~d.space /\ d.space \in BOOLEAN
      BY <1>0, <1>1, GoodIs, Zenon DEF Offer
    <2>2. Editor!EraseGhost(d) = d
      BY <1>1, Zenon DEF Editor!EraseGhost
    <2>3. d.space = FALSE
      BY <2>1
    <2> QED BY <1>1, <2>2, <2>3, Zenon DEF SameText, SamePast, SameKeys
  <1>2. CASE d.ghost # <<>>
    <2> DEFINE T == Typeable(b)
               x == Editor!UpTo(d.shown, d.col)
               none == <<>>
               r == [d EXCEPT !.shown = x, !.ghost = none, !.space = FALSE]
    <2>1. d.ansi /\ d.echo /\ d.echo = TRUE /\ d.cursor = Len(d.line)
      BY <1>0, <1>2, SuggestedIs, Zenon
    <2>2. d.line \in Seq(T) /\ d.ghost \in Seq(T) /\ Editor!Space \in T
      BY <1>0, <2>1, Echoed, HeldIs, Zenon
    <2>3. d.shown = d.line \o d.ghost /\ d.col = Len(d.line)
      BY <1>0, <2>1, Zenon DEF Synced, Showing
    <2>4. x = d.line
      <3> HIDE DEF T
      <3> QED BY <2>2, <2>3, LeftOfCursor
    <2>5. Editor!EraseGhost(d) = [[d EXCEPT !.shown = x] EXCEPT !.ghost = <<>>, !.space = FALSE]
      BY <1>2, <2>1, Zenon DEF Editor!EraseGhost, Editor!Erase
    <2> HIDE DEF x
    <2>6. Editor!EraseGhost(d) = r
      BY <1>0, <2>5 DEF Shape
    <2>7. /\ Shape(r) /\ SameText(r, d) /\ SamePast(r, d) /\ SameKeys(r, d)
          /\ r.shown = x /\ r.ghost = none /\ r.space = FALSE /\ r.col = d.col
      <3>1. Shape(d)
        BY <1>0, Zenon
      <3> HIDE DEF none
      <3> QED BY <3>1 DEF Shape, SameText, SamePast, SameKeys
    <2> HIDE DEF r
    <2>8. Offer(b, d.line, d.cursor, <<>>, FALSE, d.history, d.echo)
      BY DEF Offer
    <2>9. Row(b, x, d.col, d.echo)
      BY <1>0, <2>1, <2>2, <2>4, GoodIs, Zenon DEF Row
    <2>10. Keys(b, r)
      BY <1>0, <2>7, GoodIs, KeysSame, Zenon
    <2>11. Good(b, r)
      BY <1>0, <2>7, <2>8, <2>9, <2>10, GoodIs, Zenon DEF Good, SameText, SamePast, SameKeys
    <2>12. d.line = d.line \o <<>>
      BY <2>2
    <2>13. Synced(r)
      BY <2>1, <2>3, <2>4, <2>7, <2>12, Zenon DEF Synced, Showing, SameText, SameKeys
    <2> QED BY <2>6, <2>7, <2>11, <2>13, Zenon DEF Live
  <1> QED BY <1>1, <1>2

\* A record whose line, without a suggestion, or another place in it, is new.
LEMMA Edited ==
  ASSUME NEW b, NEW d, Good(b, d), NEW r, Shape(r),
         Sized(b, r.line, r.cursor, d.echo), Sized(b, r.draft, r.draftCursor, d.echo),
         r.ghost = <<>>, r.space = FALSE, SamePast(r, d), SameKeys(r, d), Row(b, r.shown, r.col, d.echo)
  PROVE  Good(b, r)
  <1>1. Offer(b, r.line, r.cursor, <<>>, FALSE, r.history, r.echo)
    BY DEF Offer
  <1>2. Keys(b, r)
    BY GoodIs, KeysSame, Zenon
  <1> QED BY <1>1, <1>2, GoodIs, Zenon DEF Good, SamePast, SameKeys

\* A row with a suggestion erased shows the line.
LEMMA Plainly ==
  ASSUME NEW b, NEW d, Live(b, d), d.ghost = <<>>, d.echo
  PROVE  /\ d.col = d.cursor /\ IF d.ansi THEN d.shown = d.line ELSE Begins(d.line, d.shown)
  <1>1. Good(b, d) /\ Synced(d)
    BY Zenon DEF Live
  <1>2. d.line \in Seq(Typeable(b))
    BY <1>1, Echoed, Zenon
  <1>3. d.line \o <<>> = d.line
    BY <1>2
  <1> QED BY <1>1, <1>3, Zenon DEF Synced, Showing

----------------------------------------------------------------------------
(* The event editor: the keys that move.                                    *)

Silent(d) == d.ghost = <<>> /\ d.space = FALSE

\* A piece of the line written again over a row that begins with it.
LEMMA Rewritten ==
  ASSUME NEW T, Editor!Space \in T, NEW l \in Seq(T), NEW t \in Seq(T), Begins(l, t),
         NEW c \in 0 .. Len(l), NEW k \in c .. Len(l)
  PROVE  /\ Editor!Over(t, c, SubSeq(l, c + 1, k)) \in Seq(T)
         /\ Begins(l, Editor!Over(t, c, SubSeq(l, c + 1, k)))
         /\ Len(SubSeq(l, c + 1, k)) = k - c
  <1> DEFINE x == SubSeq(l, c + 1, k)
             o == Editor!Over(t, c, x)
  <1>1. /\ Len(l) \in Nat /\ Len(t) \in Nat /\ c \in Nat /\ k \in Nat /\ c <= k /\ k <= Len(l)
        /\ Len(l) <= Len(t) /\ \A p \in 1 .. Len(l) : t[p] = l[p]
    BY DEF Begins
  <1>2. x \in Seq(T) /\ Len(x) = k - c /\ \A p \in 1 .. k - c : x[p] = l[p + c]
    BY <1>1
  <1> HIDE DEF x
  <1>3. /\ o \in Seq(T) /\ Len(o) = IF Len(t) > c + Len(x) THEN Len(t) ELSE c + Len(x)
        /\ \A p \in 1 .. Len(o) : o[p] = IF p > c /\ p <= c + Len(x) THEN x[p - c]
                                         ELSE IF p <= Len(t) THEN t[p] ELSE Editor!Space
    BY <1>1, <1>2, OverIs
  <1> HIDE DEF o
  <1>4. Len(o) = Len(t) /\ c + Len(x) = k
    BY <1>1, <1>2, <1>3
  <1>5. ASSUME NEW p \in 1 .. Len(l) PROVE o[p] = l[p]
    <2>1. p \in 1 .. Len(o) /\ p <= Len(t) /\ t[p] = l[p]
      BY <1>1, <1>4
    <2>2. CASE p > c /\ p <= k
      <3> DEFINE m == p - c
      <3>1. m \in 1 .. k - c /\ m + c = p
        BY <1>1, <2>2
      <3>2. o[p] = x[m]
        BY <1>3, <1>4, <2>1, <2>2
      <3> HIDE DEF m
      <3> QED BY <1>2, <3>1, <3>2
    <2>3. CASE ~(p > c /\ p <= k)
      BY <1>3, <1>4, <2>1, <2>3
    <2> QED BY <2>2, <2>3
  <1>6. Begins(l, o)
    BY <1>1, <1>4, <1>5 DEF Begins
  <1> QED BY <1>2, <1>3, <1>6 DEF o, x

\* Left, Right, Home and End: the terminal's cursor goes with the editor's.
LEMMA GotoKeeps ==
  ASSUME NEW b \in Builds, NEW d, Live(b, d), Silent(d), NEW k \in 0 .. Len(d.line)
  PROVE  Live(b, Editor!Goto(d, k))
  <1> DEFINE moved == [d EXCEPT !.cursor = k]
             r == Editor!Goto(d, k)
  <1>0. Good(b, d) /\ Synced(d) /\ Shape(d) /\ d.ghost = <<>> /\ d.space = FALSE /\ d.echo \in BOOLEAN
    BY GoodIs, Zenon DEF Live, Silent
  <1>s. Shape(d)
    BY <1>0, Zenon
  <1>1. /\ Sized(b, d.line, k, d.echo) /\ Sized(b, d.draft, d.draftCursor, d.echo)
        /\ Row(b, d.shown, d.col, d.echo)
    <2>1. Sized(b, d.line, d.cursor, d.echo)
      BY <1>0, GoodIs, Zenon
    <2>2. Sized(b, d.line, k, d.echo)
      BY <2>1, Zenon DEF Sized
    <2> QED BY <1>0, <2>2, GoodIs, Zenon
  <1>2. CASE ~d.echo
    <2>1. r = moved
      BY <1>2, Zenon DEF Editor!Goto
    <2>2. /\ Shape(moved) /\ moved.line = d.line /\ moved.cursor = k /\ moved.draft = d.draft /\ moved.draftCursor = d.draftCursor
          /\ SamePast(moved, d) /\ SameKeys(moved, d) /\ moved.ghost = d.ghost /\ moved.space = d.space
          /\ moved.shown = d.shown /\ moved.col = d.col /\ moved.echo = d.echo
      BY <1>s DEF Shape, SamePast, SameKeys
    <2> HIDE DEF moved
    <2>3. Good(b, moved)
      BY <1>0, <1>1, <2>2, Edited, Zenon
    <2>4. Synced(moved)
      BY <1>2, <2>2, Zenon DEF Synced, Showing
    <2> QED BY <2>1, <2>3, <2>4, Zenon DEF Live
  <1>3. CASE d.echo
    <2> DEFINE T == Typeable(b)
    <2>1. /\ d.line \in Seq(T) /\ d.shown \in Seq(T) /\ Editor!Space \in T
          /\ d.cursor \in 0 .. Len(d.line) /\ Len(d.line) \in Nat
      BY <1>0, <1>3, Echoed, HeldIs, Zenon
    <2>2. d.col = d.cursor /\ IF d.ansi THEN d.shown = d.line ELSE Begins(d.line, d.shown)
      BY <1>0, <1>3, Plainly, Zenon
    <2>3. CASE d.ansi \/ k < d.cursor
      <3> DEFINE q == [d EXCEPT !.cursor = k, !.col = d.col + k - d.cursor]
      <3>1. r = [moved EXCEPT !.col = moved.col + k - d.cursor]
        BY <1>3, <2>3, Zenon DEF Editor!Goto
      <3>2. moved.col = d.col
        BY <1>s DEF Shape
      <3>3. r = q
        <4>1. r = [moved EXCEPT !.col = d.col + k - d.cursor]
          BY <3>1, <3>2
        <4> QED BY <1>s, <4>1 DEF Shape
      <3>4. d.col + k - d.cursor = k
        BY <2>1, <2>2
      <3>5. /\ Shape(q) /\ q.line = d.line /\ q.cursor = k /\ q.draft = d.draft /\ q.draftCursor = d.draftCursor
            /\ SamePast(q, d) /\ SameKeys(q, d) /\ q.ghost = d.ghost /\ q.space = d.space
            /\ q.shown = d.shown /\ q.col = d.col + k - d.cursor
        BY <1>s DEF Shape, SamePast, SameKeys
      <3> HIDE DEF q, r
      <3>6. Row(b, d.shown, k, d.echo)
        <4>1. k \in Nat
          BY <2>1
        <4> QED BY <1>1, <4>1, Zenon DEF Row
      <3>7. Good(b, q)
        BY <1>0, <1>1, <3>4, <3>5, <3>6, Edited, Zenon
      <3>8. d.line = d.line \o <<>>
        BY <2>1
      <3>9. Synced(q)
        BY <1>0, <2>2, <3>4, <3>5, <3>8, Zenon DEF Synced, Showing, SameKeys
      <3> QED BY <3>3, <3>7, <3>9, Zenon DEF Live, r
    <2>4. CASE ~(d.ansi \/ k < d.cursor)
      <3> DEFINE x == SubSeq(d.line, d.cursor + 1, k)
                 o == Editor!Over(d.shown, d.cursor, x)
                 q == [d EXCEPT !.cursor = k, !.shown = o, !.col = k]
      <3>0. k \in d.cursor .. Len(d.line) /\ Begins(d.line, d.shown) /\ k \in Nat
        BY <2>1, <2>2, <2>4
      <3>1. o \in Seq(T) /\ Begins(d.line, o) /\ Len(x) = k - d.cursor
        <4> DEFINE l == d.line
                   t == d.shown
                   c == d.cursor
        <4>1. /\ l \in Seq(T) /\ t \in Seq(T) /\ Editor!Space \in T /\ c \in 0 .. Len(l)
              /\ k \in c .. Len(l) /\ Begins(l, t)
          BY <2>1, <3>0
        <4> HIDE DEF T, l, t, c
        <4>2. /\ Editor!Over(t, c, SubSeq(l, c + 1, k)) \in Seq(T)
              /\ Begins(l, Editor!Over(t, c, SubSeq(l, c + 1, k)))
              /\ Len(SubSeq(l, c + 1, k)) = k - c
          BY <4>1, Rewritten
        <4> QED BY <4>2 DEF l, t, c
      <3>2. r = Editor!Emit(moved, x)
        BY <1>3, <2>4, Zenon DEF Editor!Goto
      <3>3. moved.col = d.cursor /\ moved.shown = d.shown
        BY <1>s, <2>2 DEF Shape
      <3>4. d.cursor + Len(x) = k
        BY <2>1, <3>0, <3>1
      <3> HIDE DEF x
      <3>5. r = [moved EXCEPT !.shown = o, !.col = k]
        BY <3>2, <3>3, <3>4, Zenon DEF Editor!Emit
      <3> HIDE DEF o, r
      <3>6. r = q
        BY <1>s, <3>5 DEF Shape
      <3>7. /\ Shape(q) /\ q.line = d.line /\ q.cursor = k /\ q.draft = d.draft /\ q.draftCursor = d.draftCursor
            /\ SamePast(q, d) /\ SameKeys(q, d) /\ q.ghost = d.ghost /\ q.space = d.space
            /\ q.shown = o /\ q.col = k
        BY <1>s DEF Shape, SamePast, SameKeys
      <3> HIDE DEF q
      <3>8. Row(b, o, k, d.echo)
        BY <1>3, <3>0, <3>1, Zenon DEF Row
      <3>9. Good(b, q)
        BY <1>0, <1>1, <3>7, <3>8, Edited, Zenon
      <3>10. Synced(q)
        BY <2>4, <3>1, <3>7, Zenon DEF Synced, Showing, SameKeys
      <3> QED BY <3>6, <3>9, <3>10, Zenon DEF Live, r
    <2> QED BY <2>3, <2>4
  <1> QED BY <1>2, <1>3

\* A record whose line is new, and what it recalls.
LEMMA Rebuilt ==
  ASSUME NEW b, NEW r, Shape(r), NEW echo, r.echo = echo,
         Sized(b, r.line, r.cursor, echo), Sized(b, r.draft, r.draftCursor, echo),
         r.ghost = <<>>, r.space = FALSE, Past(b, r.history, r.offset), Steps(b, r.journal, echo),
         Keys(b, r), Row(b, r.shown, r.col, echo)
  PROVE  Good(b, r)
  <1>1. Offer(b, r.line, r.cursor, <<>>, FALSE, r.history, r.echo)
    BY DEF Offer
  <1> QED BY <1>1, Zenon DEF Good

\* What is written when a suggestion is taken.
LEMMA Taken ==
  ASSUME NEW T, Editor!Space \in T, NEW l \in Seq(T), NEW g \in Seq(T), NEW s \in Seq(T)
  PROVE  /\ Editor!Over(l \o g, Len(l), g \o s) = (l \o g) \o s
         /\ (l \o g) \o s \in Seq(T) /\ Len((l \o g) \o s) = Len(l) + Len(g) + Len(s)
         /\ Len((l \o g) \o s) = Len(l) + Len(g \o s)
  <1> DEFINE t == l \o g
             x == g \o s
             n == t \o s
             o == Editor!Over(t, Len(l), x)
  <1>1. Len(l) \in Nat /\ Len(g) \in Nat /\ Len(s) \in Nat
    OBVIOUS
  <1>2. /\ t \in Seq(T) /\ Len(t) = Len(l) + Len(g)
        /\ \A p \in 1 .. Len(l) + Len(g) : t[p] = IF p <= Len(l) THEN l[p] ELSE g[p - Len(l)]
    BY Joined, JoinedAt
  <1>3. /\ x \in Seq(T) /\ Len(x) = Len(g) + Len(s)
        /\ \A p \in 1 .. Len(g) + Len(s) : x[p] = IF p <= Len(g) THEN g[p] ELSE s[p - Len(g)]
    BY Joined, JoinedAt
  <1> HIDE DEF t, x
  <1>4. /\ n \in Seq(T) /\ Len(n) = Len(t) + Len(s)
        /\ \A p \in 1 .. Len(t) + Len(s) : n[p] = IF p <= Len(t) THEN t[p] ELSE s[p - Len(t)]
    BY <1>2, Joined, JoinedAt
  <1>5. /\ o \in Seq(T) /\ Len(o) = IF Len(t) > Len(l) + Len(x) THEN Len(t) ELSE Len(l) + Len(x)
        /\ \A p \in 1 .. Len(o) : o[p] = IF p > Len(l) /\ p <= Len(l) + Len(x) THEN x[p - Len(l)]
                                         ELSE IF p <= Len(t) THEN t[p] ELSE Editor!Space
    <2>1. t \in Seq(T) /\ x \in Seq(T) /\ Len(l) \in Nat
      BY <1>1, <1>2, <1>3
    <2> QED BY <2>1, OverIs
  <1> HIDE DEF n, o
  <1>6. Len(n) = Len(l) + Len(g) + Len(s) /\ Len(o) = Len(n) /\ Len(n) = Len(l) + Len(x)
    BY <1>1, <1>2, <1>3, <1>4, <1>5
  <1>7. ASSUME NEW p \in 1 .. Len(o) PROVE o[p] = n[p]
    <2>1. CASE p <= Len(l)
      <3>1. o[p] = t[p] /\ p <= Len(t)
        BY <1>1, <1>2, <1>5, <2>1
      <3> QED BY <1>1, <1>2, <1>4, <1>6, <2>1, <3>1
    <2>2. CASE ~(p <= Len(l))
      <3> DEFINE k == p - Len(l)
      <3>1. k \in 1 .. Len(g) + Len(s) /\ p > Len(l) /\ p <= Len(l) + Len(x)
        BY <1>1, <1>6, <2>2
      <3>2. o[p] = x[k]
        BY <1>5, <3>1
      <3>3. CASE k <= Len(g)
        <4>1. p <= Len(t) /\ p \in 1 .. Len(t) + Len(s) /\ p \in 1 .. Len(l) + Len(g)
          BY <1>1, <1>2, <3>3, <2>2
        <4>2. n[p] = t[p] /\ t[p] = g[k]
          BY <1>2, <1>4, <2>2, <4>1
        <4> HIDE DEF k
        <4>3. x[k] = g[k]
          BY <1>3, <3>1, <3>3
        <4> QED BY <3>2, <4>2, <4>3
      <3>4. CASE ~(k <= Len(g))
        <4>1. ~(p <= Len(t)) /\ p \in 1 .. Len(t) + Len(s) /\ p - Len(t) = k - Len(g)
          BY <1>1, <1>2, <1>6, <3>4, <2>2
        <4>2. n[p] = s[k - Len(g)]
          BY <1>4, <4>1
        <4> HIDE DEF k
        <4>3. x[k] = s[k - Len(g)]
          BY <1>3, <3>1, <3>4
        <4> QED BY <3>2, <4>2, <4>3
      <3> QED BY <3>3, <3>4
    <2> QED BY <2>1, <2>2
  <1>8. o = n
    BY <1>4, <1>5, <1>6, <1>7, SameRow
  <1> QED BY <1>4, <1>6, <1>8 DEF o, n, t, x

LEMMA TakeKeeps ==
  ASSUME NEW b \in Builds, NEW d, Live(b, d), d.ghost # <<>>
  PROVE  Live(b, Editor!TakeGhost(d))
  <1> DEFINE T == Typeable(b)
             l == d.line
             g == d.ghost
             s == IF d.space THEN <<Editor!Space>> ELSE <<>>
             o == Editor!Over(d.shown, d.col, g \o s)
             a == l \o g \o s
             q == [d EXCEPT !.shown = o, !.col = d.col + Len(g \o s), !.line = a, !.cursor = Len(a), !.ghost = <<>>,
                            !.space = FALSE, !.offset = 0, !.draft = <<>>, !.draftCursor = 0]
  <1>0. Good(b, d) /\ Synced(d) /\ Shape(d)
    BY GoodIs, Zenon DEF Live
  <1>s. Shape(d)
    BY <1>0, Zenon
  <1>1. /\ d.ansi /\ d.echo /\ d.echo = TRUE /\ d.cursor = Len(l) /\ d.space \in BOOLEAN
        /\ Len(l) + Len(g) + (IF d.space THEN 1 ELSE 0) <= b.capacity
    BY <1>0, SuggestedIs, Zenon
  <1>2. l \in Seq(T) /\ g \in Seq(T) /\ Editor!Space \in T
    BY <1>0, <1>1, Echoed, HeldIs, Zenon
  <1>3. d.shown = l \o g /\ d.col = Len(l)
    BY <1>0, <1>1, Zenon DEF Synced, Showing
  <1>4. s \in Seq(T) /\ Len(s) = IF d.space THEN 1 ELSE 0
    <2> HIDE DEF T
    <2>1. Editor!Space \in T
      BY <1>2
    <2>2. CASE d.space
      <3>1. s = <<Editor!Space>>
        BY <2>2, Zenon
      <3> HIDE DEF s
      <3> QED BY <2>1, <2>2, <3>1
    <2>3. CASE ~d.space
      <3>1. s = <<>>
        BY <2>3, Zenon
      <3> HIDE DEF s
      <3> QED BY <2>3, <3>1
    <2> QED BY <2>2, <2>3
  <1>5. Editor!TakeGhost(d) = [[d EXCEPT !.shown = o, !.col = d.col + Len(g \o s)]
           EXCEPT !.line = a, !.cursor = Len(a), !.ghost = <<>>,
                            !.space = FALSE, !.offset = 0, !.draft = <<>>, !.draftCursor = 0]
    BY Zenon DEF Editor!TakeGhost, Editor!Emit, Editor!Accepted
  <1> HIDE DEF T, s
  <1>6. /\ o = a /\ a \in Seq(T) /\ Len(a) = Len(l) + Len(g) + Len(s) /\ d.col + Len(g \o s) = Len(a)
    <2>0. s \in Seq(T)
      BY <1>4, Zenon
    <2> HIDE DEF l, g
    <2>1. /\ Editor!Over(l \o g, Len(l), g \o s) = (l \o g) \o s
          /\ (l \o g) \o s \in Seq(T) /\ Len((l \o g) \o s) = Len(l) + Len(g) + Len(s)
          /\ Len((l \o g) \o s) = Len(l) + Len(g \o s)
      BY <1>2, <2>0, Taken, SMTT(60)
    <2> QED BY <1>3, <2>1, Zenon
  <1>7. Len(a) \in Nat /\ Len(a) <= b.capacity
    <2>1. Len(a) <= b.capacity
      BY <1>1, <1>4, <1>6, Zenon
    <2>2. a \in Seq(T)
      BY <1>6, Zenon
    <2> HIDE DEF a
    <2>3. Len(a) \in Nat
      BY <2>2
    <2> QED BY <2>1, <2>3
  <1> HIDE DEF o, a
  <1>8. Editor!TakeGhost(d) = q
    BY <1>s, <1>5 DEF Shape
  <1>9. /\ Shape(q) /\ q.line = a /\ q.cursor = Len(a) /\ q.draft = <<>> /\ q.draftCursor = 0
        /\ q.history = d.history /\ q.offset = 0 /\ q.journal = d.journal
        /\ SameKeys(q, d) /\ q.ghost = <<>> /\ q.space = FALSE
        /\ q.shown = o /\ q.col = d.col + Len(g \o s)
    BY <1>s DEF Shape, SameKeys
  <1> HIDE DEF q
  <1>10. Sized(b, a, Len(a), d.echo)
    <2>0. Len(a) \in 0 .. Len(a)
      BY <1>7
    <2>1. a \in Seq(Typeable(b)) /\ Len(a) \in 0 .. Len(a)
      BY <1>6, <2>0, Zenon DEF T
    <2> QED BY <1>1, <1>7, <2>1, WiderLine
  <1>11. Sized(b, <<>>, 0, d.echo)
    BY NoLine, Zenon
  <1>12. Past(b, d.history, 0)
    <2>1. Past(b, d.history, d.offset)
      BY <1>0, GoodIs, Zenon
    <2> QED BY <2>1 DEF Past
  <1>13. Keys(b, q) /\ q.echo = d.echo /\ q.ansi = d.ansi
    BY <1>0, <1>9, GoodIs, KeysSame, Zenon DEF SameKeys
  <1>14. Row(b, o, d.col + Len(g \o s), d.echo)
    BY <1>1, <1>6, <1>7, Zenon DEF Row, T
  <1>15. Good(b, q)
    BY <1>0, <1>9, <1>10, <1>11, <1>12, <1>13, <1>14, GoodIs, Rebuilt, Zenon
  <1>16. a = a \o <<>>
    BY <1>6
  <1>17. Synced(q)
    BY <1>1, <1>6, <1>9, <1>13, <1>16, Zenon DEF Synced, Showing
  <1> QED BY <1>8, <1>15, <1>17, Zenon DEF Live

\* Up and Down: the line is another, and the row shows it.
LEMMA RecallKeeps ==
  ASSUME NEW b \in Builds, NEW d, Live(b, d), Silent(d), NEW older \in BOOLEAN
  PROVE  Live(b, Editor!Recall(d, older))
  <1> DEFINE to == IF older THEN d.offset + 1 ELSE d.offset - 1
             aside == CASE to = 0 -> [d EXCEPT !.draft = <<>>, !.draftCursor = 0]
                [] to = 1 /\ older -> [d EXCEPT !.draft = d.line, !.draftCursor = d.cursor]
                [] OTHER -> d
             l == IF to = 0 THEN d.draft ELSE d.history[to]
             c == IF to = 0 THEN d.draftCursor ELSE Len(d.history[to])
             q == [aside EXCEPT !.offset = to, !.line = l, !.cursor = c]
  <1>0. Good(b, d) /\ d.ghost = <<>> /\ d.space = FALSE /\ d.echo \in BOOLEAN
    BY GoodIs, Zenon DEF Live, Silent
  <1>s. Shape(d)
    BY <1>0, GoodIs, Zenon
  <1>1. CASE ~d.echo \/ to \notin 0 .. Len(d.history)
    BY <1>1, Zenon DEF Editor!Recall
  <1>2. CASE ~(~d.echo \/ to \notin 0 .. Len(d.history))
    <2>1. Editor!Recall(d, older) = Editor!Redraw(q)
      BY <1>2, Zenon DEF Editor!Recall
    <2> DEFINE x == IF to = 0 THEN <<>> ELSE IF to = 1 /\ older THEN d.line ELSE d.draft
               y == IF to = 0 THEN 0 ELSE IF to = 1 /\ older THEN d.cursor ELSE d.draftCursor
    <2>2. /\ Sized(b, d.line, d.cursor, d.echo) /\ Sized(b, d.draft, d.draftCursor, d.echo)
          /\ Past(b, d.history, d.offset) /\ Sized(b, <<>>, 0, d.echo)
      BY <1>0, GoodIs, NoLine, Zenon
    <2>3. Sized(b, x, y, d.echo)
      BY <2>2, Zenon
    <2>4. Sized(b, l, c, d.echo) /\ Past(b, d.history, to)
      <3>1. to \in 0 .. Len(d.history)
        BY <1>2
      <3>2. Past(b, d.history, to)
        BY <2>2, <3>1, Zenon DEF Past
      <3> HIDE DEF to
      <3>3. CASE to = 0
        BY <2>2, <3>2, <3>3, Zenon
      <3>4. CASE to # 0
        <4>1. /\ d.history \in Seq(Seq(Typeable(b))) /\ \A i \in 1 .. Len(d.history) : Len(d.history[i]) <= b.capacity
          BY <2>2, Zenon DEF Past
        <4>2. to \in 1 .. Len(d.history)
          BY <3>1, <3>4, <4>1
        <4>3. d.history[to] \in Seq(Typeable(b)) /\ Len(d.history[to]) <= b.capacity
          <5> DEFINE S == Seq(Typeable(b))
          <5> HIDE DEF S
          <5>1. d.history[to] \in S
            BY <4>1, <4>2 DEF S
          <5> QED BY <4>1, <4>2, <5>1 DEF S
        <4>4. Len(d.history[to]) \in 0 .. Len(d.history[to])
          BY <4>3
        <4>5. Sized(b, d.history[to], Len(d.history[to]), d.echo)
          BY <1>0, <4>3, <4>4, WiderLine
        <4> QED BY <3>2, <3>4, <4>5, Zenon
      <3> QED BY <3>3, <3>4
    <2> HIDE DEF l, c, to
    <2>5. /\ DOMAIN aside = DOMAIN d /\ aside.draft = x /\ aside.draftCursor = y
          /\ aside.history = d.history /\ aside.journal = d.journal /\ SameKeys(aside, d)
          /\ aside.ghost = d.ghost /\ aside.space = d.space /\ aside.shown = d.shown /\ aside.col = d.col
      <3>1. CASE to = 0
        <4>0. x = <<>> /\ y = 0
          BY <3>1, Zenon
        <4>1. aside = [d EXCEPT !.draft = <<>>, !.draftCursor = 0] /\ x = <<>> /\ y = 0
          BY <3>1, <4>0
        <4> HIDE DEF aside, x, y
        <4> QED BY <1>s, <4>1 DEF Shape, SameKeys
      <3>2. CASE to # 0 /\ to = 1 /\ older
        <4>1. aside = [d EXCEPT !.draft = d.line, !.draftCursor = d.cursor] /\ x = d.line /\ y = d.cursor
          BY <3>2, Zenon
        <4> HIDE DEF aside, x, y
        <4> QED BY <1>s, <4>1 DEF Shape, SameKeys
      <3>3. CASE to # 0 /\ ~(to = 1 /\ older)
        <4>1. aside = d /\ x = d.draft /\ y = d.draftCursor
          BY <3>3, Zenon
        <4> HIDE DEF aside, x, y
        <4> QED BY <4>1, Zenon DEF SameKeys
      <3> QED BY <3>1, <3>2, <3>3, Zenon
    <2> HIDE DEF aside, x, y
    <2>6. Shape(aside)
      BY <1>s, <2>5 DEF Shape
    <2>7. /\ Shape(q) /\ q.line = l /\ q.cursor = c /\ q.offset = to /\ q.draft = aside.draft
          /\ q.draftCursor = aside.draftCursor /\ q.history = aside.history /\ q.journal = aside.journal
          /\ SameKeys(q, aside) /\ q.ghost = aside.ghost /\ q.space = aside.space
          /\ q.shown = aside.shown /\ q.col = aside.col
      BY <2>6 DEF Shape, SameKeys
    <2> HIDE DEF q
    <2>8. Keys(b, q) /\ q.echo = d.echo
      <3>1. SameKeys(q, d)
        BY <2>5, <2>7, Zenon DEF SameKeys
      <3> QED BY <1>0, <3>1, GoodIs, KeysSame, Zenon DEF SameKeys
    <2>9. Row(b, d.shown, d.col, d.echo) /\ Steps(b, d.journal, d.echo)
      BY <1>0, GoodIs, Zenon
    <2>10. Good(b, q)
      BY <1>0, <2>3, <2>4, <2>5, <2>7, <2>8, <2>9, Rebuilt, Zenon
    <2> QED BY <2>1, <2>10, RedrawKeeps, Zenon
  <1> QED BY <1>1, <1>2

LEMMA MoveKeeps ==
  ASSUME NEW b \in Builds, NEW d, Live(b, d), NEW k
  PROVE  Live(b, Editor!Move(d, k))
  <1> DEFINE q == Editor!EraseGhost(d)
             m == Editor!Move(d, k)
  <1>1. Live(b, q) /\ Silent(q) /\ q.line = d.line /\ q.cursor = d.cursor
    BY EraseKeeps, Zenon DEF Silent, SameText
  <1>2. d.cursor \in 0 .. Len(d.line) /\ Len(d.line) \in Nat
    <2>1. Sized(b, d.line, d.cursor, d.echo)
      BY GoodIs, Zenon DEF Live
    <2>2. d.line \in Seq(Held(b, d.echo)) /\ d.cursor \in 0 .. Len(d.line)
      BY <2>1, Zenon DEF Sized
    <2> QED BY <2>2
  <1>5. CASE ~(k \in {"C", "F"} /\ d.cursor = Len(d.line) /\ d.ghost # <<>>)
    <2>1. CASE k = "D" /\ d.cursor > 0
      <3>1. m = Editor!Goto(q, d.cursor - 1)
        BY <2>1, Zenon DEF Editor!Move
      <3>2. d.cursor - 1 \in 0 .. Len(q.line)
        BY <1>1, <1>2, <2>1
      <3> QED BY <1>1, <3>1, <3>2, GotoKeeps, Zenon
    <2>2. CASE ~(k = "D" /\ d.cursor > 0) /\ k = "C" /\ d.cursor < Len(d.line)
      <3>1. m = Editor!Goto(q, d.cursor + 1)
        BY <1>5, <2>2, Zenon DEF Editor!Move
      <3>2. d.cursor + 1 \in 0 .. Len(q.line)
        BY <1>1, <1>2, <2>2
      <3> QED BY <1>1, <3>1, <3>2, GotoKeeps, Zenon
    <2>3. CASE k = "H"
      <3>1. m = Editor!Goto(q, 0)
        BY <1>5, <2>3, Zenon DEF Editor!Move
      <3>2. 0 \in 0 .. Len(q.line)
        BY <1>1, <1>2
      <3> QED BY <1>1, <3>1, <3>2, GotoKeeps, Zenon
    <2>4. CASE k = "F" /\ (d.cursor < Len(d.line) \/ d.ghost = <<>>)
      <3>1. m = Editor!Goto(q, Len(d.line))
        BY <1>5, <2>4, Zenon DEF Editor!Move
      <3>2. Len(d.line) \in 0 .. Len(q.line)
        BY <1>1, <1>2
      <3> QED BY <1>1, <3>1, <3>2, GotoKeeps, Zenon
    <2>5. CASE k \in {"A", "B"}
      <3>1. m = Editor!Recall(q, k = "A")
        BY <1>5, <2>5, Zenon DEF Editor!Move
      <3>2. (k = "A") \in BOOLEAN
        OBVIOUS
      <3> QED BY <1>1, <3>1, <3>2, RecallKeeps, Zenon
    <2>6. CASE /\ ~(k = "D" /\ d.cursor > 0) /\ ~(k = "C" /\ d.cursor < Len(d.line))
               /\ k # "H" /\ ~(k = "F" /\ (d.cursor < Len(d.line) \/ d.ghost = <<>>)) /\ k \notin {"A", "B"}
      <3>1. m = q
        BY <1>5, <2>6, Zenon DEF Editor!Move
      <3> QED BY <1>1, <3>1, Zenon
    <2> QED BY <2>1, <2>2, <2>3, <2>4, <2>5, <2>6, Zenon
  <1>6. CASE k \in {"C", "F"} /\ d.cursor = Len(d.line) /\ d.ghost # <<>>
    <2>0. ~(d.cursor < Len(d.line)) /\ k \notin {"D", "H", "A", "B"}
      BY <1>2, <1>6
    <2>1. m = Editor!TakeGhost(d)
      BY <1>6, <2>0, Zenon DEF Editor!Move
    <2> QED BY <1>6, <2>1, TakeKeeps, Zenon
  <1> QED BY <1>5, <1>6, Zenon

----------------------------------------------------------------------------
(* The event editor: the keys that put in and take out.                     *)

\* The row is right before column c, and the rest of the line is written from there.
Started(l, t, c) == c <= Len(t) /\ \A p \in 1 .. c : t[p] = l[p]
LEMMA Overwritten ==
  ASSUME NEW T, Editor!Space \in T, NEW l \in Seq(T), NEW t \in Seq(T), NEW c \in 0 .. Len(l), Started(l, t, c),
         NEW x \in Seq(T), Len(x) >= Len(l) - c, \A p \in 1 .. Len(l) - c : x[p] = l[p + c]
  PROVE  Editor!Over(t, c, x) \in Seq(T) /\ Begins(l, Editor!Over(t, c, x))
  <1> DEFINE o == Editor!Over(t, c, x)
  <1>1. Len(l) \in Nat /\ Len(t) \in Nat /\ Len(x) \in Nat /\ c \in Nat /\ c <= Len(l) /\ c <= Len(t)
        /\ \A p \in 1 .. c : t[p] = l[p]
    BY DEF Started
  <1>2. /\ o \in Seq(T) /\ Len(o) = IF Len(t) > c + Len(x) THEN Len(t) ELSE c + Len(x)
        /\ \A p \in 1 .. Len(o) : o[p] = IF p > c /\ p <= c + Len(x) THEN x[p - c]
                                         ELSE IF p <= Len(t) THEN t[p] ELSE Editor!Space
    BY <1>1, OverIs
  <1> HIDE DEF o
  <1>3. Len(o) \in Nat /\ Len(l) <= Len(o) /\ c + Len(x) >= Len(l)
    BY <1>1, <1>2
  <1>4. ASSUME NEW p \in 1 .. Len(l) PROVE o[p] = l[p]
    <2>1. p \in 1 .. Len(o)
      BY <1>1, <1>3
    <2>2. CASE p > c
      <3> DEFINE m == p - c
      <3>1. m \in 1 .. Len(l) - c /\ m + c = p /\ p <= c + Len(x)
        BY <1>1, <1>3, <2>2
      <3>2. o[p] = x[m]
        BY <1>2, <2>1, <2>2, <3>1
      <3> HIDE DEF m
      <3>3. x[m] = l[m + c]
        BY <3>1
      <3> QED BY <3>1, <3>2, <3>3
    <2>3. CASE ~(p > c)
      <3>1. p \in 1 .. c /\ p <= Len(t)
        BY <1>1, <2>3
      <3> QED BY <1>1, <1>2, <2>1, <2>3, <3>1
    <2> QED BY <2>2, <2>3
  <1>5. Begins(l, o)
    BY <1>3, <1>4 DEF Begins
  <1> QED BY <1>2, <1>5 DEF o

\* What ps_editor_fix_cursor writes, and leaves.
LEMMA Fixed ==
  ASSUME NEW T, Editor!Space \in T, NEW l \in Seq(T), NEW t \in Seq(T), NEW c \in 0 .. Len(l), Started(l, t, c)
  PROVE  /\ SubSeq(l, c + 1, Len(l)) \in Seq(T)
         /\ Editor!UpTo(t, c) \o SubSeq(l, c + 1, Len(l)) = l
         /\ Editor!Over(t, c, SubSeq(l, c + 1, Len(l))) \in Seq(T)
         /\ Begins(l, Editor!Over(t, c, SubSeq(l, c + 1, Len(l))))
         /\ Editor!Over(t, c, Append(SubSeq(l, c + 1, Len(l)), Editor!Space)) \in Seq(T)
         /\ Begins(l, Editor!Over(t, c, Append(SubSeq(l, c + 1, Len(l)), Editor!Space)))
  <1> DEFINE x == SubSeq(l, c + 1, Len(l))
             y == Append(x, Editor!Space)
  <1>0. Len(l) \in Nat /\ c \in Nat /\ c <= Len(l) /\ Len(l) - c \in Nat
    OBVIOUS
  <1>1. x \in Seq(T) /\ Len(x) = Len(l) - c /\ \A p \in 1 .. Len(l) - c : x[p] = l[p + c]
    BY <1>0
  <1>2. Editor!UpTo(t, c) \o x = l
    BY Resumed DEF Started
  <1> HIDE DEF x
  <1>3. y \in Seq(T) /\ Len(y) = Len(x) + 1 /\ \A p \in 1 .. Len(x) : y[p] = x[p]
    BY <1>1
  <1> HIDE DEF y
  <1>4. Len(x) >= Len(l) - c /\ Len(y) >= Len(l) - c
    BY <1>0, <1>1, <1>3
  <1>5. \A p \in 1 .. Len(l) - c : y[p] = l[p + c]
    BY <1>1, <1>3
  <1>6. Editor!Over(t, c, x) \in Seq(T) /\ Begins(l, Editor!Over(t, c, x))
    BY <1>1, <1>4, Overwritten
  <1>7. Editor!Over(t, c, y) \in Seq(T) /\ Begins(l, Editor!Over(t, c, y))
    BY <1>3, <1>4, <1>5, Overwritten
  <1> QED BY <1>1, <1>2, <1>6, <1>7, Zenon DEF x, y

Overlaid(d, x) == [d EXCEPT !.shown = x]
SameButRow(r, d) == SameText(r, d) /\ SameOffer(r, d) /\ SameKeys(r, d) /\ SamePast(r, d)
LEMMA OverlaidKeeps ==
  ASSUME NEW b, NEW d, Good(b, d), NEW x, Row(b, x, d.col, d.echo)
  PROVE  \E r : /\ r = Overlaid(d, x) /\ Good(b, r) /\ r.shown = x /\ r.col = d.col
                /\ SameButRow(r, d)
  <1> DEFINE r == Overlaid(d, x)
  <1>1. Shape(d)
    BY GoodIs, Zenon
  <1>2. /\ Shape(r) /\ SameText(r, d) /\ SameOffer(r, d) /\ SameKeys(r, d) /\ SamePast(r, d)
        /\ r.shown = x /\ r.col = d.col
    BY <1>1 DEF Overlaid, Shape, SameText, SameOffer, SameKeys, SamePast
  <1> HIDE DEF r
  <1>3. Keys(b, r)
    BY <1>2, GoodIs, KeysSame, Zenon
  <1>4. Good(b, r)
    BY <1>2, <1>3, GoodIs, Zenon DEF Good, SameText, SameOffer, SameKeys, SamePast
  <1>5. r = Overlaid(d, x)
    BY DEF r
  <1> QED BY <1>2, <1>4, <1>5, Zenon DEF SameButRow

\* ps_editor_fix_cursor, where the row is right before the cursor.
LEMMA FixKeeps ==
  ASSUME NEW b \in Builds, NEW q, Good(b, q), Silent(q), q.echo, q.col = q.cursor,
         Started(q.line, q.shown, q.cursor), NEW clear \in BOOLEAN,
         q.ansi /\ SubSeq(q.line, q.cursor + 1, Len(q.line)) = <<>> /\ ~clear => q.shown = q.line
  PROVE  Live(b, Editor!FixCursor(q, clear))
  <1> DEFINE T == Typeable(b)
             l == q.line
             t == q.shown
             c == q.cursor
             x == SubSeq(l, c + 1, Len(l))
             u == Editor!UpTo(t, c) \o x
             o == Editor!Over(t, c, x)
             y == Editor!Over(t, c, Append(x, Editor!Space))
             r == Editor!FixCursor(q, clear)
  <1>1. /\ l \in Seq(T) /\ t \in Seq(T) /\ Editor!Space \in T /\ c \in 0 .. Len(l) /\ q.echo = TRUE /\ q.col \in Nat
    BY Echoed, HeldIs, Zenon
  <1>2. Started(l, t, c)
    OBVIOUS
  <1>3. u = l /\ o \in Seq(T) /\ Begins(l, o) /\ y \in Seq(T) /\ Begins(l, y)
    <2> HIDE DEF T, l, t, c
    <2> QED BY <1>1, <1>2, Fixed, SMTT(60)
  <1>4. l = l \o <<>>
    BY <1>1
  <1>5. q.ansi \in BOOLEAN /\ q.ansi = b.ansi
    BY GoodIs, BuildIs, Zenon
  <1>6. \A v : v \in Seq(T) /\ (IF q.ansi THEN v = l ELSE Begins(l, v)) => Live(b, Overlaid(q, v))
    <2> SUFFICES ASSUME NEW v, v \in Seq(T), IF q.ansi THEN v = l ELSE Begins(l, v) PROVE Live(b, Overlaid(q, v))
      BY Zenon
    <2>1. Row(b, v, q.col, q.echo)
      BY <1>1, Zenon DEF Row
    <2>2. PICK w : w = Overlaid(q, v) /\ Good(b, w) /\ w.shown = v /\ w.col = q.col /\ SameButRow(w, q)
      BY <2>1, OverlaidKeeps, Zenon
    <2>3. Synced(w)
      BY <1>4, <2>2, ZenonT(60) DEF Synced, Showing, SameButRow, SameText, SameOffer, SameKeys, Silent
    <2> QED BY <2>2, <2>3, Zenon DEF Live
  <1>7. CASE q.ansi /\ (x # <<>> \/ clear)
    <2>1. r = Overlaid(q, u)
      BY <1>7, Zenon DEF Editor!FixCursor, Overlaid
    <2> QED BY <1>1, <1>3, <1>6, <1>7, <2>1, Zenon
  <1>8. CASE q.ansi /\ ~(x # <<>> \/ clear)
    <2>1. r = q
      BY <1>8, Zenon DEF Editor!FixCursor
    <2>2. q.shown = q.line
      BY <1>8, Zenon
    <2>3. Synced(q)
      BY <1>4, <1>8, <2>2, Zenon DEF Synced, Showing, Silent
    <2> QED BY <2>1, <2>3, Zenon DEF Live
  <1>9. CASE ~q.ansi
    <2> DEFINE v == IF clear THEN y ELSE o
    <2>1. r = Overlaid(q, Editor!Over(q.shown, q.col, IF clear THEN Append(x, Editor!Space) ELSE x))
      BY <1>9, Zenon DEF Editor!FixCursor, Overlaid
    <2>2. r = Overlaid(q, v)
      BY <2>1, Zenon
    <2>3. v \in Seq(T) /\ Begins(l, v)
      BY <1>3, Zenon
    <2> HIDE DEF v
    <2> QED BY <1>6, <1>9, <2>2, <2>3, Zenon
  <1> QED BY <1>7, <1>8, <1>9, Zenon

\* ps_editor_shift_left and the row after it.
LEMMA CutKeeps ==
  ASSUME NEW b \in Builds, NEW d, Live(b, d), Silent(d)
  PROVE  Live(b, Editor!Cut(d))
  <1> DEFINE l == d.line
             i == d.cursor
             n == CutOut(l, i, i + 1)
             c == [d EXCEPT !.line = n]
  <1>0. Good(b, d) /\ Synced(d) /\ d.ghost = <<>> /\ d.space = FALSE /\ d.echo \in BOOLEAN
    BY GoodIs, Zenon DEF Live, Silent
  <1>s. Shape(d)
    BY <1>0, GoodIs, Zenon
  <1>1. CASE i = Len(l)
    BY <1>1, Zenon DEF Editor!Cut
  <1>2. CASE i # Len(l)
    <2> DEFINE H == Held(b, d.echo)
    <2>1. l \in Seq(H) /\ i \in 0 .. Len(l) /\ Len(l) <= b.capacity /\ Sized(b, d.draft, d.draftCursor, d.echo)
          /\ Row(b, d.shown, d.col, d.echo)
      BY <1>0, GoodIs, Zenon DEF Sized
    <2>2. Len(l) \in Nat /\ i \in Nat /\ i + 1 \in i .. Len(l) /\ i + 1 + 1 = i + 2
      BY <1>2, <2>1
    <2>3. /\ n \in Seq(H) /\ Len(n) = i + (Len(l) - (i + 1))
          /\ \A p \in 1 .. i + (Len(l) - (i + 1)) : n[p] = IF p <= i THEN l[p] ELSE l[p - i + (i + 1)]
      <3> DEFINE j == i + 1
      <3>1. j \in i .. Len(l)
        BY <2>2
      <3> HIDE DEF l, i, j, H
      <3>2. /\ CutOut(l, i, j) \in Seq(H) /\ Len(CutOut(l, i, j)) = i + (Len(l) - j)
            /\ \A p \in 1 .. i + (Len(l) - j) : CutOut(l, i, j)[p] = IF p <= i THEN l[p] ELSE l[p - i + j]
        BY <2>1, <3>1, CutAt
      <3> QED BY <3>2 DEF j
    <2>4. SubSeq(l, 1, i) \o SubSeq(l, i + 2, Len(l)) = n
      BY <2>2, Zenon DEF CutOut
    <2>5. Editor!Cut(d) = IF d.echo THEN Editor!FixCursor(c, TRUE) ELSE c
      BY <1>2, <2>4, Zenon DEF Editor!Cut
    <2>6. i \in 0 .. Len(n) /\ Len(n) <= b.capacity /\ Len(n) \in Nat
      <3>1. b.capacity \in Nat
        BY BuildIs, Zenon
      <3> HIDE DEF n
      <3> QED BY <2>1, <2>2, <2>3, <3>1, SMTT(60)
    <2>7. \A p \in 1 .. i : n[p] = l[p]
      <3>1. Len(l) \in Nat /\ i \in Nat /\ i + 1 <= Len(l)
        BY <2>2
      <3> HIDE DEF l, i, n
      <3> QED BY <2>3, <3>1
    <2> HIDE DEF n
    <2>8. /\ Shape(c) /\ c.line = n /\ c.cursor = i /\ c.draft = d.draft /\ c.draftCursor = d.draftCursor
          /\ SamePast(c, d) /\ SameKeys(c, d) /\ c.ghost = d.ghost /\ c.space = d.space
          /\ c.shown = d.shown /\ c.col = d.col /\ c.echo = d.echo /\ c.ansi = d.ansi
      BY <1>s DEF Shape, SamePast, SameKeys
    <2> HIDE DEF c
    <2>9. Sized(b, n, i, d.echo)
      BY <2>3, <2>6, Zenon DEF Sized
    <2>10. Good(b, c)
      BY <1>0, <2>1, <2>8, <2>9, Edited, Zenon
    <2>11. CASE ~d.echo
      <3>1. Synced(c)
        BY <2>8, <2>11, Zenon DEF Synced, Showing
      <3> QED BY <2>5, <2>10, <2>11, <3>1, Zenon DEF Live
    <2>12. CASE d.echo
      <3>1. d.col = i /\ IF d.ansi THEN d.shown = l ELSE Begins(l, d.shown)
        BY <1>0, <2>12, Plainly, Zenon
      <3>2. Started(n, d.shown, i)
        <4>1. CASE d.ansi
          BY <2>1, <2>2, <2>7, <3>1, <4>1 DEF Started
        <4>2. CASE ~d.ansi
          <5>1. Len(l) <= Len(d.shown) /\ \A p \in 1 .. Len(l) : d.shown[p] = l[p]
            BY <3>1, <4>2, Zenon DEF Begins
          <5>2. Len(d.shown) \in Nat
            BY <2>1 DEF Row
          <5> QED BY <2>1, <2>2, <2>7, <5>1, <5>2, SMTT(60) DEF Started
        <4> QED BY <4>1, <4>2
      <3>3. Live(b, Editor!FixCursor(c, TRUE))
        BY <1>0, <2>8, <2>10, <2>12, <3>1, <3>2, FixKeeps, Zenon DEF Silent
      <3> QED BY <2>5, <2>12, <3>3, Zenon
    <2> QED BY <2>11, <2>12
  <1> QED BY <1>1, <1>2

LEMMA BackspaceKeeps ==
  ASSUME NEW b \in Builds, NEW d, Live(b, d), Silent(d)
  PROVE  Live(b, Editor!Backspace(d))
  <1> DEFINE y == IF d.echo THEN d.col - 1 ELSE d.col
             q == [d EXCEPT !.cursor = d.cursor - 1, !.col = y]
  <1>0. Good(b, d) /\ Synced(d) /\ d.ghost = <<>> /\ d.space = FALSE /\ d.echo \in BOOLEAN
    BY GoodIs, Zenon DEF Live, Silent
  <1>s. Shape(d)
    BY <1>0, GoodIs, Zenon
  <1>1. CASE d.cursor = 0
    BY <1>1, Zenon DEF Editor!Backspace
  <1>2. CASE d.cursor # 0
    <2>1. Editor!Backspace(d) = Editor!Cut(q)
      BY <1>2, Zenon DEF Editor!Backspace
    <2>2. d.line \in Seq(Held(b, d.echo)) /\ d.cursor \in 0 .. Len(d.line) /\ Len(d.line) <= b.capacity
          /\ Sized(b, d.draft, d.draftCursor, d.echo) /\ Row(b, d.shown, d.col, d.echo)
      BY <1>0, GoodIs, Zenon DEF Sized
    <2>3. d.cursor - 1 \in 0 .. Len(d.line) /\ d.cursor - 1 \in Nat
      BY <1>2, <2>2
    <2>4. d.echo => d.col = d.cursor /\ IF d.ansi THEN d.shown = d.line ELSE Begins(d.line, d.shown)
      BY <1>0, Plainly, Zenon
    <2>5. y \in Nat /\ (d.echo => y = d.cursor - 1)
      <3>1. CASE d.echo
        BY <2>3, <2>4, <3>1
      <3>2. CASE ~d.echo
        BY <2>2, <3>2, Zenon DEF Row
      <3> QED BY <3>1, <3>2
    <2> HIDE DEF y
    <2>6. /\ Shape(q) /\ q.line = d.line /\ q.cursor = d.cursor - 1 /\ q.draft = d.draft
          /\ q.draftCursor = d.draftCursor /\ SamePast(q, d) /\ SameKeys(q, d) /\ q.ghost = d.ghost
          /\ q.space = d.space /\ q.shown = d.shown /\ q.col = y /\ q.echo = d.echo /\ q.ansi = d.ansi
      BY <1>s DEF Shape, SamePast, SameKeys
    <2> HIDE DEF q
    <2>7. Sized(b, d.line, d.cursor - 1, d.echo) /\ Row(b, d.shown, y, d.echo)
      BY <2>2, <2>3, <2>5, Zenon DEF Sized, Row
    <2>8. Good(b, q)
      BY <1>0, <2>2, <2>6, <2>7, Edited, Zenon
    <2>9. d.line = d.line \o <<>>
      BY <2>2
    <2>10. Synced(q)
      BY <1>0, <2>4, <2>5, <2>6, <2>9, Zenon DEF Synced, Showing
    <2>11. Live(b, q) /\ Silent(q)
      BY <1>0, <2>6, <2>8, <2>10, Zenon DEF Live, Silent
    <2> QED BY <2>1, <2>11, CutKeeps, Zenon
  <1> QED BY <1>1, <1>2

\* Ctrl-U and Ctrl-W.
LEMMA CutToKeeps ==
  ASSUME NEW b \in Builds, NEW d, Live(b, d), Silent(d), NEW k \in Nat
  PROVE  Live(b, Editor!CutTo(d, k))
  <1> DEFINE l == d.line
             i == d.cursor
             n == CutOut(l, k, i)
             q == [d EXCEPT !.line = n, !.cursor = k]
  <1>0. Good(b, d) /\ d.ghost = <<>> /\ d.space = FALSE /\ d.echo \in BOOLEAN
    BY GoodIs, Zenon DEF Live, Silent
  <1>s. Shape(d)
    BY <1>0, GoodIs, Zenon
  <1>1. CASE k >= i
    BY <1>1, Zenon DEF Editor!CutTo
  <1>2. CASE ~(k >= i)
    <2> DEFINE H == Held(b, d.echo)
    <2>1. l \in Seq(H) /\ i \in 0 .. Len(l) /\ Len(l) <= b.capacity /\ Sized(b, d.draft, d.draftCursor, d.echo)
          /\ Row(b, d.shown, d.col, d.echo)
      BY <1>0, GoodIs, Zenon DEF Sized
    <2>2. Len(l) \in Nat /\ k \in 0 .. Len(l) /\ i \in k .. Len(l)
      BY <1>2, <2>1
    <2>3. n \in Seq(H) /\ Len(n) = k + (Len(l) - i)
      <3> HIDE DEF l, i, H
      <3> QED BY <2>1, <2>2, CutAt
    <2>4. Editor!CutTo(d, k) = Editor!Redraw(q)
      BY <1>2, Zenon DEF Editor!CutTo, CutOut
    <2>5. k \in 0 .. Len(n) /\ Len(n) <= b.capacity
      <3>1. b.capacity \in Nat
        BY BuildIs, Zenon
      <3> HIDE DEF n, l, i
      <3> QED BY <2>1, <2>2, <2>3, <3>1
    <2> HIDE DEF n
    <2>6. /\ Shape(q) /\ q.line = n /\ q.cursor = k /\ q.draft = d.draft /\ q.draftCursor = d.draftCursor
          /\ SamePast(q, d) /\ SameKeys(q, d) /\ q.ghost = d.ghost /\ q.space = d.space
          /\ q.shown = d.shown /\ q.col = d.col
      BY <1>s DEF Shape, SamePast, SameKeys
    <2> HIDE DEF q
    <2>7. Sized(b, n, k, d.echo)
      BY <2>3, <2>5, Zenon DEF Sized
    <2>8. Good(b, q)
      BY <1>0, <2>1, <2>6, <2>7, Edited, Zenon
    <2> QED BY <2>4, <2>8, RedrawKeeps, Zenon
  <1> QED BY <1>1, <1>2

LEMMA WordStarts ==
  ASSUME NEW d, d.cursor \in Nat
  PROVE  Editor!WordStart(d) \in Nat
  <1> DEFINE S == {k \in 0 .. d.cursor : /\ \E i \in k + 1 .. d.cursor : d.line[i] # Editor!Space
                                         /\ k = 0 \/ d.line[k] = Editor!Space}
  <1>1. CASE S = {}
    BY <1>1, Zenon DEF Editor!WordStart
  <1>2. CASE S # {}
    <2>1. S \in SUBSET (0 .. d.cursor)
      OBVIOUS
    <2>2. Editor!WordStart(d) = CHOOSE k \in S : \A j \in S : j <= k
      BY <1>2, Zenon DEF Editor!WordStart
    <2> HIDE DEF S
    <2>3. \E x \in S : \A y \in S : x >= y
      BY <1>2, <2>1, GreatestIn
    <2>4. \E k \in S : \A j \in S : j <= k
      BY <2>1, <2>3
    <2>5. Editor!WordStart(d) \in S
      BY <2>2, <2>4, Zenon
    <2>6. \A k \in S : k \in Nat
      BY <2>1
    <2> QED BY <2>5, <2>6, Zenon
  <1> QED BY <1>1, <1>2

\* The row after a character is written over it, before the rest is.
LEMMA Written ==
  ASSUME NEW T, Editor!Space \in T, NEW l \in Seq(T), NEW t \in Seq(T), NEW i \in 0 .. Len(l), NEW x \in T,
         Begins(l, t)
  PROVE  \E o, n : /\ o = Editor!Over(t, i, <<x>>) /\ n = PutIn(l, i, x) /\ o \in Seq(T) /\ Started(n, o, i + 1)
                   /\ (t = l /\ i = Len(l) => o = n)
  <1> DEFINE o == Editor!Over(t, i, <<x>>)
             n == PutIn(l, i, x)
  <1>0. /\ Len(l) \in Nat /\ Len(t) \in Nat /\ i \in Nat /\ i <= Len(l) /\ Len(l) <= Len(t)
        /\ \A p \in 1 .. Len(l) : t[p] = l[p]
    BY DEF Begins
  <1>1. <<x>> \in Seq(T) /\ Len(<<x>>) = 1 /\ <<x>>[1] = x
    OBVIOUS
  <1>2. PICK m : m = <<x>> /\ m \in Seq(T) /\ Len(m) = 1 /\ m[1] = x
    BY <1>1, Zenon
  <1>3. o = Editor!Over(t, i, m)
    BY <1>2, Zenon
  <1>4. m \in Seq(T) /\ Len(m) = 1 /\ m[1] = x
    BY <1>2, Zenon
  <1> HIDE DEF o
  <1>5. /\ o \in Seq(T) /\ Len(o) = IF Len(t) > i + Len(m) THEN Len(t) ELSE i + Len(m)
        /\ \A p \in 1 .. Len(o) : o[p] = IF p > i /\ p <= i + Len(m) THEN m[p - i]
                                         ELSE IF p <= Len(t) THEN t[p] ELSE Editor!Space
    <2>1. i \in Nat
      BY <1>0
    <2> DEFINE u == Editor!Over(t, i, m)
    <2>2. /\ u \in Seq(T) /\ Len(u) = IF Len(t) > i + Len(m) THEN Len(t) ELSE i + Len(m)
          /\ \A p \in 1 .. Len(u) : u[p] = IF p > i /\ p <= i + Len(m) THEN m[p - i]
                                           ELSE IF p <= Len(t) THEN t[p] ELSE Editor!Space
      BY <1>4, <2>1, OverIs, Zenon
    <2> HIDE DEF u
    <2>3. u = o
      BY <1>3, Zenon DEF u
    <2> QED BY <2>2, <2>3, Zenon
  <1>6. /\ n \in Seq(T) /\ Len(n) = Len(l) + 1
        /\ \A p \in 1 .. Len(l) + 1 : n[p] = IF p <= i THEN l[p] ELSE IF p = i + 1 THEN x ELSE l[p - 1]
    <2> HIDE DEF n
    <2>1. /\ PutIn(l, i, x) \in Seq(T) /\ Len(PutIn(l, i, x)) = Len(l) + 1
          /\ \A p \in 1 .. Len(l) + 1 : PutIn(l, i, x)[p] = IF p <= i THEN l[p] ELSE IF p = i + 1 THEN x ELSE l[p - 1]
      BY PutAt, SMTT(60)
    <2> QED BY <2>1, Zenon DEF n
  <1> HIDE DEF n
  <1>7. Len(o) = IF Len(t) > i + 1 THEN Len(t) ELSE i + 1
    BY <1>4, <1>5
  <1>8. ASSUME NEW p \in 1 .. i + 1 PROVE o[p] = n[p]
    <2>1. p \in 1 .. Len(o) /\ p \in 1 .. Len(l) + 1
      BY <1>0, <1>7
    <2>2. CASE p = i + 1
      <3>1. p > i /\ p <= i + Len(m) /\ p - i = 1 /\ ~(p <= i)
        BY <1>0, <1>4, <2>2
      <3>2. o[p] = x
        BY <1>4, <1>5, <2>1, <3>1
      <3>3. n[p] = x
        BY <1>6, <2>1, <2>2, <3>1
      <3> QED BY <3>2, <3>3
    <2>3. CASE p # i + 1
      <3>1. p <= i /\ ~(p > i) /\ p <= Len(t) /\ p \in 1 .. Len(l)
        BY <1>0, <2>3
      <3>2. o[p] = t[p]
        BY <1>5, <2>1, <3>1
      <3>3. n[p] = l[p]
        BY <1>6, <2>1, <3>1
      <3> QED BY <1>0, <3>1, <3>2, <3>3
    <2> QED BY <2>2, <2>3
  <1>9. i + 1 <= Len(o)
    BY <1>0, <1>7
  <1>10. Started(n, o, i + 1)
    BY <1>8, <1>9 DEF Started
  <1>11. ASSUME t = l, i = Len(l) PROVE o = n
    <2>1. Len(o) = i + 1 /\ Len(n) = i + 1
      BY <1>0, <1>6, <1>7, <1>11
    <2> QED BY <1>5, <1>6, <1>8, <2>1, SameRow
  <1>12. o = Editor!Over(t, i, <<x>>) /\ n = PutIn(l, i, x)
    BY Zenon DEF o, n
  <1> QED BY <1>5, <1>10, <1>11, <1>12, Zenon

\* A printable byte.
LEMMA InsertKeeps ==
  ASSUME NEW b \in Builds, build = b, NEW d, Live(b, d), Silent(d), NEW x \in Held(b, d.echo)
  PROVE  Live(b, Editor!Insert(d, x))
  <1> DEFINE l == d.line
             i == d.cursor
             n == PutIn(l, i, x)
             put == [d EXCEPT !.line = n, !.cursor = i + 1]
  <1>0. Good(b, d) /\ Synced(d) /\ d.ghost = <<>> /\ d.space = FALSE /\ d.echo \in BOOLEAN
    BY GoodIs, Zenon DEF Live, Silent
  <1>s. Shape(d)
    BY <1>0, GoodIs, Zenon
  <1> DEFINE H == Held(b, d.echo)
  <1>1. l \in Seq(H) /\ i \in 0 .. Len(l) /\ Len(l) <= b.capacity /\ Sized(b, d.draft, d.draftCursor, d.echo)
        /\ Row(b, d.shown, d.col, d.echo)
    BY <1>0, GoodIs, Zenon DEF Sized
  <1>2. CASE Editor!Full(d)
    <2> DEFINE q == [d EXCEPT !.overflow = TRUE]
    <2>1. Editor!Insert(d, x) = q
      BY <1>2, Zenon DEF Editor!Insert
    <2>2. /\ Shape(q) /\ q.line = l /\ q.cursor = i /\ q.draft = d.draft /\ q.draftCursor = d.draftCursor
          /\ SamePast(q, d) /\ q.escape = d.escape /\ q.number = d.number /\ q.paste = d.paste /\ q.match = d.match
          /\ q.overflow = TRUE /\ q.cr = d.cr /\ q.echo = d.echo /\ q.ansi = d.ansi
          /\ q.ghost = d.ghost /\ q.space = d.space /\ q.shown = d.shown /\ q.col = d.col
      BY <1>s DEF Shape, SamePast
    <2> HIDE DEF q
    <2>3. Keys(b, q)
      <3>1. Keys(b, d)
        BY <1>0, GoodIs, Zenon
      <3> QED BY <2>2, <3>1 DEF Keys
    <2>4. Good(b, q)
      BY <1>0, <2>2, <2>3, GoodIs, Zenon DEF Good, SamePast
    <2>5. Synced(q)
      BY <1>0, <2>2, Zenon DEF Synced, Showing
    <2> QED BY <2>1, <2>4, <2>5, Zenon DEF Live
  <1>3. CASE ~Editor!Full(d)
    <2>1. Len(l) < b.capacity /\ b.capacity \in Nat /\ Len(l) \in Nat
      <3>1. ~(Len(l) >= b.capacity)
        BY <1>3, Zenon DEF Editor!Full
      <3>2. b.capacity \in Nat
        BY BuildIs, Zenon
      <3> QED BY <1>1, <3>1, <3>2
    <2>2. n \in Seq(H) /\ Len(n) = Len(l) + 1
      <3> HIDE DEF l, i, H
      <3>1. x \in H
        BY DEF H
      <3> QED BY <1>1, <3>1, PutAt
    <2>3. i + 1 \in 0 .. Len(n) /\ Len(n) <= b.capacity /\ i \in Nat
      <3> HIDE DEF n, l, i
      <3> QED BY <1>1, <2>1, <2>2
    <2>4. /\ d.echo => Editor!Insert(d, x) = Editor!FixCursor(Editor!Emit(put, <<x>>), FALSE)
          /\ ~d.echo => Editor!Insert(d, x) = put
      BY <1>0, <1>3, Zenon DEF Editor!Insert, PutIn
    <2> HIDE DEF n
    <2>5. /\ Shape(put) /\ put.line = n /\ put.cursor = i + 1 /\ put.draft = d.draft
          /\ put.draftCursor = d.draftCursor /\ SamePast(put, d) /\ SameKeys(put, d) /\ put.ghost = d.ghost
          /\ put.space = d.space /\ put.shown = d.shown /\ put.col = d.col /\ put.echo = d.echo /\ put.ansi = d.ansi
      BY <1>s DEF Shape, SamePast, SameKeys
    <2> HIDE DEF put
    <2>6. Sized(b, n, i + 1, d.echo)
      BY <2>2, <2>3, Zenon DEF Sized
    <2>7. Good(b, put)
      BY <1>0, <1>1, <2>5, <2>6, Edited, Zenon
    <2>8. CASE ~d.echo
      <3>1. Synced(put)
        BY <2>5, <2>8, Zenon DEF Synced, Showing
      <3> QED BY <2>4, <2>7, <2>8, <3>1, Zenon DEF Live
    <2>9. CASE d.echo
      <3> DEFINE T == Typeable(b)
                 o == Editor!Over(d.shown, i, <<x>>)
                 w == Drawn(put, o, i + 1)
      <3>1. d.col = i /\ IF d.ansi THEN d.shown = l ELSE Begins(l, d.shown)
        BY <1>0, <2>9, Plainly, Zenon
      <3>2. /\ l \in Seq(T) /\ d.shown \in Seq(T) /\ Editor!Space \in T /\ i \in 0 .. Len(l) /\ d.echo = TRUE
        BY <1>0, <2>9, Echoed, HeldIs, Zenon
      <3>3. x \in T
        BY <3>2, HeldIs, Zenon
      <3>4. Begins(l, d.shown)
        <4>1. CASE d.ansi
          BY <1>1, <2>1, <3>1, <4>1 DEF Begins
        <4>2. CASE ~d.ansi
          BY <3>1, <4>2, Zenon
        <4> QED BY <4>1, <4>2
      <3>5. /\ o \in Seq(T) /\ Started(n, o, i + 1) /\ (d.shown = l /\ i = Len(l) => o = n)
        <4> DEFINE t == d.shown
        <4> HIDE DEF l, i, T, t
        <4>0. l \in Seq(T) /\ t \in Seq(T) /\ Editor!Space \in T /\ i \in 0 .. Len(l) /\ x \in T /\ Begins(l, t)
          BY <3>2, <3>3, <3>4, Zenon DEF t
        <4>1. \E u, v : /\ u = Editor!Over(t, i, <<x>>) /\ v = PutIn(l, i, x) /\ u \in Seq(T) /\ Started(v, u, i + 1)
                        /\ (t = l /\ i = Len(l) => u = v)
          BY <4>0, Written, SMT
        <4> QED BY <4>1, Zenon DEF n, t
      <3>6. Len(<<x>>) = 1
        OBVIOUS
      <3>7. Editor!Emit(put, <<x>>) = w
        BY <2>5, <3>1, <3>6, Zenon DEF Editor!Emit, Drawn
      <3> HIDE DEF o
      <3>8. Row(b, o, i + 1, put.echo)
        <4>1. i + 1 \in Nat
          BY <2>3
        <4> QED BY <2>5, <2>9, <3>5, <4>1, Zenon DEF Row
      <3>9. Good(b, w) /\ w.shown = o /\ w.col = i + 1 /\ SameText(w, put) /\ SameOffer(w, put) /\ SameKeys(w, put)
        BY <2>7, <3>8, RowKeeps, SMT
      <3> HIDE DEF w
      <3>10. w.line = n /\ w.cursor = i + 1 /\ w.echo /\ Silent(w) /\ w.ansi = d.ansi
        BY <1>0, <2>5, <2>9, <3>9, Zenon DEF SameText, SameOffer, SameKeys, Silent
      <3>11. d.ansi /\ SubSeq(n, i + 1 + 1, Len(n)) = <<>> => o = n
        <4> SUFFICES ASSUME d.ansi, SubSeq(n, i + 1 + 1, Len(n)) = <<>> PROVE o = n
          OBVIOUS
        <4>1. Len(SubSeq(n, i + 1 + 1, Len(n))) = Len(n) - (i + 1)
          <5> HIDE DEF i, l
          <5> QED BY <2>2, <2>3
        <4>2. Len(n) - (i + 1) = 0
          <5>1. Len(<<>>) = 0
            OBVIOUS
          <5> QED BY <4>1, <5>1, Zenon
        <4>3. i = Len(l)
          BY <2>1, <2>2, <2>3, <4>2
        <4> QED BY <3>1, <3>5, <4>3, Zenon
      <3>12. Live(b, Editor!FixCursor(w, FALSE))
        BY <3>5, <3>9, <3>10, <3>11, FixKeeps, Zenon
      <3> QED BY <2>4, <2>9, <3>7, <3>12, Zenon
    <2> QED BY <2>8, <2>9
  <1> QED BY <1>2, <1>3

----------------------------------------------------------------------------
(* The event editor: a byte.                                                *)

\* The same editor and row, further in a sequence or a paste.
LEMMA KeyKeeps ==
  ASSUME NEW b, NEW d, Good(b, d), NEW r, Shape(r), SameText(r, d), SameOffer(r, d), SamePast(r, d),
         r.shown = d.shown, r.col = d.col, r.echo = d.echo, r.ansi = d.ansi, Keys(b, r)
  PROVE  Good(b, r) /\ (Synced(d) => Synced(r))
  <1>1. Good(b, r)
    BY GoodIs, Zenon DEF Good, SameText, SameOffer, SamePast
  <1>2. Synced(d) => Synced(r)
    BY Zenon DEF Synced, Showing, SameText, SameOffer
  <1> QED BY <1>1, <1>2

LEMMA EndsKeeps ==
  ASSUME NEW b, NEW d, Live(b, d)
  PROVE  Live(b, Editor!EscapeEnds(d))
  <1> DEFINE r == [d EXCEPT !.escape = 0, !.number = 0]
  <1>0. Good(b, d) /\ Synced(d)
    BY Zenon DEF Live
  <1>s. Shape(d) /\ Keys(b, d)
    BY <1>0, GoodIs, Zenon
  <1>1. r = Editor!EscapeEnds(d)
    BY Zenon DEF Editor!EscapeEnds
  <1>2. /\ Shape(r) /\ SameText(r, d) /\ SameOffer(r, d) /\ SamePast(r, d) /\ r.shown = d.shown /\ r.col = d.col
        /\ r.escape = 0 /\ r.number = 0 /\ r.paste = d.paste /\ r.match = d.match
        /\ r.overflow = d.overflow /\ r.cr = d.cr /\ r.echo = d.echo /\ r.ansi = d.ansi
    BY <1>s DEF Shape, SameText, SameOffer, SamePast
  <1> HIDE DEF r
  <1>3. Keys(b, r)
    BY <1>s, <1>2 DEF Keys
  <1> QED BY <1>0, <1>1, <1>2, <1>3, KeyKeeps, Zenon DEF Live

LEMMA TildeKeeps ==
  ASSUME NEW b \in Builds, NEW d, Live(b, d), d.number \in Editor!Numbers
  PROVE  Live(b, Editor!Tilde(d))
  <1>0. Good(b, d) /\ Synced(d)
    BY Zenon DEF Live
  <1>s. Shape(d) /\ Keys(b, d)
    BY <1>0, GoodIs, Zenon
  <1>1. CASE d.number = "200"
    <2> DEFINE r == [d EXCEPT !.paste = TRUE, !.match = 0]
    <2>1. r = Editor!Tilde(d)
      BY <1>1, Zenon DEF Editor!Tilde
    <2>2. /\ Shape(r) /\ SameText(r, d) /\ SameOffer(r, d) /\ SamePast(r, d) /\ r.shown = d.shown /\ r.col = d.col
          /\ r.escape = d.escape /\ r.number = d.number /\ r.paste = TRUE /\ r.match = 0
          /\ r.overflow = d.overflow /\ r.cr = d.cr /\ r.echo = d.echo /\ r.ansi = d.ansi
      BY <1>s DEF Shape, SameText, SameOffer, SamePast
    <2> HIDE DEF r
    <2>3. Keys(b, r)
      <3>1. r.paste \in BOOLEAN
        BY <2>2, Zenon
      <3>2. r.match \in 0 .. 3
        BY <2>2
      <3> QED BY <1>s, <2>2, <3>1, <3>2, Zenon DEF Keys
    <2> QED BY <1>0, <2>1, <2>2, <2>3, KeyKeeps, Zenon DEF Live
  <1>2. CASE d.number = "3"
    <2>1. Editor!Tilde(d) = Editor!Cut(Editor!EraseGhost(d))
      BY <1>2, Zenon DEF Editor!Tilde
    <2>2. Live(b, Editor!EraseGhost(d)) /\ Silent(Editor!EraseGhost(d))
      BY EraseKeeps, Zenon DEF Silent
    <2> QED BY <2>1, <2>2, CutKeeps, Zenon
  <1>3. CASE d.number = "1"
    <2>1. Editor!Tilde(d) = Editor!Move(d, "H")
      BY <1>3, Zenon DEF Editor!Tilde
    <2> QED BY <2>1, MoveKeeps, Zenon
  <1> QED BY <1>1, <1>2, <1>3, Zenon DEF Editor!Numbers

LEMMA EscapeKeeps ==
  ASSUME NEW b \in Builds, NEW d, Live(b, d), d.escape > 0, NEW k
  PROVE  Live(b, Editor!EscapeByte(d, k))
  <1> DEFINE m == Editor!EscapeByte(d, k)
  <1>0. Good(b, d) /\ Synced(d)
    BY Zenon DEF Live
  <1>s. Shape(d) /\ Keys(b, d)
    BY <1>0, GoodIs, Zenon
  <1>1. d.escape \in {1, 2, 3} /\ (d.escape = 3 => d.number \in Editor!Numbers)
    BY <1>s DEF Keys
  <1>2. CASE d.escape = 1 /\ k = "["
    <2> DEFINE r == [d EXCEPT !.escape = 2]
    <2>0. d.escape # 2 /\ d.escape # 3
      BY <1>2
    <2>1. r = m
      BY <1>2, <2>0, Zenon DEF Editor!EscapeByte
    <2>2. /\ Shape(r) /\ SameText(r, d) /\ SameOffer(r, d) /\ SamePast(r, d) /\ r.shown = d.shown /\ r.col = d.col
          /\ r.escape = 2 /\ r.number = d.number /\ r.paste = d.paste /\ r.match = d.match
          /\ r.overflow = d.overflow /\ r.cr = d.cr /\ r.echo = d.echo /\ r.ansi = d.ansi
      BY <1>s DEF Shape, SameText, SameOffer, SamePast
    <2> HIDE DEF r
    <2>3. Keys(b, r)
      BY <1>s, <2>2 DEF Keys
    <2> QED BY <1>0, <2>1, <2>2, <2>3, KeyKeeps, Zenon DEF Live
  <1>3. CASE d.escape = 1 /\ k # "["
    <2> DEFINE r == [d EXCEPT !.escape = 0]
    <2>0. d.escape # 2 /\ d.escape # 3
      BY <1>3
    <2>1. m = Editor!Move(r, k)
      BY <1>3, <2>0, Zenon DEF Editor!EscapeByte
    <2>2. /\ Shape(r) /\ SameText(r, d) /\ SameOffer(r, d) /\ SamePast(r, d) /\ r.shown = d.shown /\ r.col = d.col
          /\ r.escape = 0 /\ r.number = d.number /\ r.paste = d.paste /\ r.match = d.match
          /\ r.overflow = d.overflow /\ r.cr = d.cr /\ r.echo = d.echo /\ r.ansi = d.ansi
      BY <1>s DEF Shape, SameText, SameOffer, SamePast
    <2> HIDE DEF r
    <2>3. Keys(b, r)
      BY <1>s, <2>2 DEF Keys
    <2>4. Live(b, r)
      BY <1>0, <2>2, <2>3, KeyKeeps, Zenon DEF Live
    <2> QED BY <2>1, <2>4, MoveKeeps, Zenon
  <1>4. CASE d.escape = 2 /\ k \in Editor!Numbers
    <2> DEFINE r == [d EXCEPT !.escape = 3, !.number = k]
    <2>0. d.escape # 1 /\ d.escape # 3
      BY <1>4
    <2>1. r = m
      BY <1>4, <2>0, Zenon DEF Editor!EscapeByte
    <2>2. /\ Shape(r) /\ SameText(r, d) /\ SameOffer(r, d) /\ SamePast(r, d) /\ r.shown = d.shown /\ r.col = d.col
          /\ r.escape = 3 /\ r.number = k /\ r.paste = d.paste /\ r.match = d.match
          /\ r.overflow = d.overflow /\ r.cr = d.cr /\ r.echo = d.echo /\ r.ansi = d.ansi
      BY <1>s DEF Shape, SameText, SameOffer, SamePast
    <2> HIDE DEF r
    <2>3. Keys(b, r)
      BY <1>s, <1>4, <2>2 DEF Keys
    <2> QED BY <1>0, <2>1, <2>2, <2>3, KeyKeeps, Zenon DEF Live
  <1>5. CASE d.escape = 3 /\ k \in Editor!Numbers
    <2>0. d.escape # 1 /\ d.escape # 2 /\ k # "~"
      BY <1>5 DEF Editor!Numbers
    <2>1. m = Editor!EscapeEnds(d)
      BY <1>5, <2>0, Zenon DEF Editor!EscapeByte
    <2> QED BY <2>1, EndsKeeps, Zenon
  <1>6. CASE d.escape = 3 /\ k = "~" /\ k \notin Editor!Numbers
    <2>0. d.escape # 1 /\ d.escape # 2
      BY <1>6
    <2>1. m = Editor!EscapeEnds(Editor!Tilde(d))
      BY <1>6, <2>0, Zenon DEF Editor!EscapeByte
    <2>2. d.number \in Editor!Numbers
      BY <1>1, <1>6
    <2> QED BY <2>1, <2>2, TildeKeeps, EndsKeeps, Zenon
  <1>7. CASE d.escape # 1 /\ ~(d.escape \in {2, 3} /\ k \in Editor!Numbers) /\ ~(d.escape = 3 /\ k = "~")
    <2>1. m = Editor!EscapeEnds(Editor!Move(d, k))
      BY <1>7, Zenon DEF Editor!EscapeByte
    <2> QED BY <2>1, MoveKeeps, EndsKeeps, Zenon
  <1> QED BY <1>1, <1>2, <1>3, <1>4, <1>5, <1>6, <1>7, Zenon

\* An editor with nothing in it, on an empty row.
LEMMA EmptyJournal ==
  ASSUME NEW b \in Builds, NEW echo
  PROVE  Steps(b, Editor!Empty, echo)
  <1>1. Editor!Empty = [frames |-> <<>>, at |-> 0]
    BY Zenon DEF Editor!Empty
  <1>2. b.slots \in Nat
    BY BuildIs, Zenon
  <1> DEFINE F == Frames(b, echo)
             j == [frames |-> <<>>, at |-> 0]
  <1> HIDE DEF F
  <1>3. IsJournal(j, F, b.slots)
    BY <1>2 DEF IsJournal
  <1> QED BY <1>1, <1>3, Zenon DEF Steps, F

LEMMA BlankKeeps ==
  ASSUME NEW b \in Builds, NEW r, Shape(r), r.line = <<>>, r.cursor = 0, r.ghost = <<>>, r.space = FALSE,
         r.draft = <<>>, r.draftCursor = 0, r.offset = 0, r.journal = Editor!Empty, Past(b, r.history, 0),
         Keys(b, r), r.shown = <<>>, r.col = 0
  PROVE  Live(b, r) /\ Silent(r)
  <1>1. Sized(b, <<>>, 0, r.echo) /\ Steps(b, Editor!Empty, r.echo)
    BY NoLine, EmptyJournal, Zenon
  <1>2. Row(b, <<>>, 0, r.echo)
    BY DEF Row
  <1>3. Good(b, r)
    BY <1>1, <1>2, Rebuilt, Zenon
  <1>4. <<>> = <<>> \o <<>> /\ Begins(<<>>, <<>>)
    BY DEF Begins
  <1>5. Synced(r)
    BY <1>4, Zenon DEF Synced, Showing
  <1> QED BY <1>3, <1>5, Zenon DEF Live, Silent

IsFresh(r, a) ==
  /\ Shape(r) /\ r.line = <<>> /\ r.cursor = 0 /\ r.ghost = <<>> /\ r.space = FALSE
  /\ r.draft = <<>> /\ r.draftCursor = 0 /\ r.offset = 0 /\ r.journal = Editor!Empty
  /\ r.history = <<>> /\ r.escape = 0 /\ r.paste = FALSE /\ r.match = 0 /\ r.overflow = FALSE
  /\ r.cr = FALSE /\ r.echo = TRUE /\ r.ansi = a /\ r.shown = <<>> /\ r.col = 0
LEMMA FreshIs == \A a : IsFresh(Editor!Fresh(a), a)
  BY DEF Editor!Fresh, Shape, IsFresh

\* ps_editor_clear, then a new row; the echo may be another one's.
LEMMA ClearedKeeps ==
  ASSUME NEW b \in Builds, NEW d, Keys(b, d), Past(b, d.history, d.offset), NEW echo \in BOOLEAN
  PROVE  Live(b, Editor!NewRow(Editor!Cleared(d))) /\ Live(b, Editor!NewRow([Editor!Cleared(d) EXCEPT !.echo = echo]))
  <1>0. PICK f : f = Editor!Fresh(d.ansi) /\ IsFresh(f, d.ansi)
    BY FreshIs, Zenon
  <1>1. /\ f = Editor!Fresh(d.ansi) /\ Shape(f) /\ f.line = <<>> /\ f.cursor = 0 /\ f.ghost = <<>> /\ f.space = FALSE
        /\ f.draft = <<>> /\ f.draftCursor = 0 /\ f.offset = 0 /\ f.journal = Editor!Empty
        /\ f.history = <<>> /\ f.escape = 0 /\ f.paste = FALSE /\ f.match = 0 /\ f.overflow = FALSE
        /\ f.cr = FALSE /\ f.echo = TRUE /\ f.ansi = d.ansi /\ f.shown = <<>> /\ f.col = 0
    BY <1>0, Zenon DEF IsFresh
  <1> DEFINE c == [f EXCEPT !.history = d.history, !.cr = d.cr, !.echo = d.echo, !.shown = d.shown, !.col = d.col]
             none == <<>>
             r == [c EXCEPT !.shown = none, !.col = 0]
             q == [[c EXCEPT !.echo = echo] EXCEPT !.shown = none, !.col = 0]
  <1>2. Editor!NewRow(Editor!Cleared(d)) = r /\ Editor!NewRow([Editor!Cleared(d) EXCEPT !.echo = echo]) = q
    BY <1>1, Zenon DEF Editor!NewRow, Editor!Cleared
  <1>3. Keys(b, d) /\ Past(b, d.history, d.offset)
    OBVIOUS
  <1>4. Past(b, d.history, 0)
    BY <1>3 DEF Past
  <1>5. Shape(f)
    BY <1>1, Zenon
  <1> HIDE DEF none
  <1>6. /\ Shape(r) /\ r.line = f.line /\ r.cursor = f.cursor /\ r.ghost = f.ghost /\ r.space = f.space
        /\ r.draft = f.draft /\ r.draftCursor = f.draftCursor /\ r.offset = f.offset /\ r.journal = f.journal
        /\ r.history = d.history /\ r.escape = f.escape /\ r.paste = f.paste /\ r.match = f.match
        /\ r.overflow = f.overflow /\ r.cr = d.cr /\ r.echo = d.echo /\ r.ansi = f.ansi /\ r.shown = none /\ r.col = 0
    BY <1>5 DEF Shape
  <1>7. /\ Shape(q) /\ q.line = f.line /\ q.cursor = f.cursor /\ q.ghost = f.ghost /\ q.space = f.space
        /\ q.draft = f.draft /\ q.draftCursor = f.draftCursor /\ q.offset = f.offset /\ q.journal = f.journal
        /\ q.history = d.history /\ q.escape = f.escape /\ q.paste = f.paste /\ q.match = f.match
        /\ q.overflow = f.overflow /\ q.cr = d.cr /\ q.echo = echo /\ q.ansi = f.ansi /\ q.shown = none /\ q.col = 0
    BY <1>5 DEF Shape
  <1> HIDE DEF r, q
  <1>8. ASSUME NEW s, Shape(s), s.line = f.line, s.cursor = f.cursor, s.ghost = f.ghost, s.space = f.space,
               s.draft = f.draft, s.draftCursor = f.draftCursor, s.offset = f.offset, s.journal = f.journal,
               s.history = d.history, s.escape = f.escape, s.paste = f.paste, s.match = f.match,
               s.overflow = f.overflow, s.cr = d.cr, s.echo \in BOOLEAN, s.ansi = f.ansi, s.shown = none, s.col = 0
        PROVE  Live(b, s)
    <2>1. s.escape = 0 /\ s.match = 0
      BY <1>1, <1>8, Zenon
    <2>2. s.paste = FALSE /\ s.overflow = FALSE /\ s.cr \in BOOLEAN /\ s.ansi = b.ansi
      BY <1>1, <1>3, <1>8, Zenon DEF Keys
    <2>3. s.escape \in 0 .. 3 /\ s.match \in 0 .. 3 /\ s.escape # 3
      BY <2>1
    <2>4. s.paste \in BOOLEAN /\ s.overflow \in BOOLEAN
      BY <2>2, Zenon
    <2>5. Keys(b, s)
      BY <1>8, <2>2, <2>3, <2>4, Zenon DEF Keys
    <2>6. s.line = <<>> /\ s.cursor = 0 /\ s.ghost = <<>> /\ s.space = FALSE /\ s.draft = <<>> /\ s.draftCursor = 0
          /\ s.offset = 0 /\ s.journal = Editor!Empty /\ s.shown = <<>> /\ Past(b, s.history, 0)
      BY <1>1, <1>4, <1>8, Zenon DEF none
    <2> QED BY <1>8, <2>5, <2>6, BlankKeeps, Zenon
  <1>9. d.echo \in BOOLEAN
    BY <1>3, Zenon DEF Keys
  <1>10. Live(b, r)
    BY <1>6, <1>8, <1>9, Zenon
  <1>11. Live(b, q)
    BY <1>7, <1>8, Zenon
  <1> QED BY <1>2, <1>10, <1>11, Zenon

\* ps_editor_feed_inner: a byte the terminal can send with this echo.
Sent(b, k, echo) == k \in Editor!Visible \cup Editor!InCSI \cup {"201", Editor!Secret} => k \in Held(b, echo)
Ended(d, k) == k \in {"CR", "LF"} /\ ~(d.cr /\ k = "LF")
LEMMA Unprinted ==
  ASSUME NEW b \in Builds, build = b, NEW k \in Editor!Control
  PROVE  k \notin Editor!Visible \cup Editor!InCSI \cup {"201", Editor!Secret}
  <1>1. k \notin b.visible /\ Editor!Visible = b.visible
    BY EditorAssumption, Zenon DEF Editor!Visible
  <1>2. k \notin Editor!InCSI \cup {"201", Editor!Secret}
    BY DEF Editor!Control, Editor!InCSI, Editor!Numbers, Editor!Finals, Editor!Secret
  <1> QED BY <1>1, <1>2, Zenon

LEMMA InnerKeeps ==
  ASSUME NEW b \in Builds, build = b, NEW d0, Live(b, d0), NEW k, Sent(b, k, d0.echo)
  PROVE  Good(b, Editor!Inner(d0, k)) /\ (Synced(Editor!Inner(d0, k)) \/ Ended(d0, k))
  <1> DEFINE d == Editor!Unsuggested(d0, k)
             q == [d EXCEPT !.cr = FALSE]
             m == Editor!Inner(d0, k)
  <1>1. /\ Live(b, d) /\ d.cr = d0.cr /\ d.echo = d0.echo
        /\ (d.escape = 0 /\ k # "ESC" => Silent(d))
    <2>1. CASE d0.escape = 0 /\ k # "ESC"
      <3>1. d = Editor!EraseGhost(d0)
        BY <2>1, Zenon DEF Editor!Unsuggested
      <3> HIDE DEF d
      <3>2. Live(b, d) /\ d.ghost = <<>> /\ d.space = FALSE
        BY <3>1, EraseKeeps, Zenon
      <3>3. SameKeys(d, d0)
        BY <3>1, EraseKeeps, Zenon
      <3> QED BY <3>2, <3>3, Zenon DEF SameKeys, Silent
    <2>2. CASE ~(d0.escape = 0 /\ k # "ESC")
      <3>1. d = d0
        BY <2>2, Zenon DEF Editor!Unsuggested
      <3> QED BY <2>2, <3>1, Zenon
    <2> QED BY <2>1, <2>2
  <1>2. m = CASE d.cr /\ k = "LF" -> q
       [] ~(d.cr /\ k = "LF") /\ k \in {"CR", "LF"} -> Editor!NewRow([d EXCEPT !.cr = (k = "CR")])
       [] k = "^C" -> Editor!NewRow(Editor!Cleared(q))
       [] k \notin {"CR", "LF", "^C"} /\ d.overflow -> q
       [] k \notin {"CR", "LF", "^C"} /\ ~d.overflow ->
            CASE d.escape > 0 -> Editor!EscapeByte(q, k)
              [] d.escape = 0 /\ k = "ESC" -> [q EXCEPT !.escape = 1]
              [] d.escape = 0 /\ k = "^A" -> Editor!Move(q, "H")
              [] d.escape = 0 /\ k = "^E" -> Editor!Move(q, "F")
              [] d.escape = 0 /\ k = "^U" -> Editor!CutTo(q, 0)
              [] d.escape = 0 /\ k = "^W" -> Editor!CutTo(q, Editor!WordStart(q))
              [] d.escape = 0 /\ k = "^D" -> Editor!Cut(q)
              [] d.escape = 0 /\ k = "^L" -> IF d.echo THEN Editor!Redraw(Editor!NewRow(q)) ELSE q
              [] d.escape = 0 /\ k = "BS" -> Editor!Backspace(q)
              [] d.escape = 0 /\ k \in Editor!Visible \cup Editor!InCSI \cup {"201", Editor!Secret} -> Editor!Insert(q, k)
              [] OTHER -> q
    BY Zenon DEF Editor!Inner
  <1> HIDE DEF d, m
  <1>3. Good(b, d) /\ Synced(d) /\ Shape(d) /\ Keys(b, d)
    BY <1>1, GoodIs, Zenon DEF Live
  <1>s. Shape(d)
    BY <1>3, Zenon
  <1>4. ASSUME NEW v \in BOOLEAN
        PROVE  \E r : /\ r = [d EXCEPT !.cr = v] /\ Live(b, r) /\ Shape(r) /\ r.escape = d.escape /\ r.echo = d.echo
                      /\ r.ghost = d.ghost /\ r.space = d.space
    <2> DEFINE r == [d EXCEPT !.cr = v]
    <2>1. /\ Shape(r) /\ SameText(r, d) /\ SameOffer(r, d) /\ SamePast(r, d) /\ r.shown = d.shown /\ r.col = d.col
          /\ r.escape = d.escape /\ r.number = d.number /\ r.paste = d.paste /\ r.match = d.match
          /\ r.overflow = d.overflow /\ r.cr = v /\ r.echo = d.echo /\ r.ansi = d.ansi
      BY <1>s DEF Shape, SameText, SameOffer, SamePast
    <2>2. r = [d EXCEPT !.cr = v]
      BY Zenon
    <2> HIDE DEF r
    <2>3. Keys(b, r)
      BY <1>3, <2>1, Zenon DEF Keys
    <2>4. Live(b, r)
      BY <1>3, <2>1, <2>3, KeyKeeps, Zenon DEF Live
    <2> QED BY <2>1, <2>2, <2>4, Zenon DEF SameOffer
  <1>5. /\ Live(b, q) /\ Shape(q) /\ q.escape = d.escape /\ q.echo = d.echo
        /\ (d.escape = 0 /\ k # "ESC" => Silent(q))
    <2>1. FALSE \in BOOLEAN
      OBVIOUS
    <2> QED BY <1>1, <1>4, <2>1, Zenon DEF Silent
  <1>6. Good(b, q) /\ Synced(q) /\ Keys(b, q)
    BY <1>5, GoodIs, Zenon DEF Live
  <1> HIDE DEF q
  <1>u. k \in Editor!Control => k \notin Editor!Visible \cup Editor!InCSI \cup {"201", Editor!Secret}
    BY Unprinted, Zenon
  <1>v. {"ESC", "^A", "^E", "^U", "^W", "^D", "^L", "BS"} \subseteq Editor!Control
    BY DEF Editor!Control
  <1>w. k \in {"ESC", "^A", "^E", "^U", "^W", "^D", "^L", "BS"} => k \notin Editor!Visible \cup Editor!InCSI \cup {"201", Editor!Secret}
    BY <1>u, <1>v, Zenon
  <1>7. CASE d.cr /\ k = "LF"
    <2>1. m = q
      BY <1>2, <1>7, Zenon
    <2> QED BY <1>6, <2>1, Zenon DEF m
  <1>8. CASE ~(d.cr /\ k = "LF") /\ k \in {"CR", "LF"}
    <2>1. m = Editor!NewRow([d EXCEPT !.cr = (k = "CR")])
      BY <1>2, <1>8, Zenon
    <2>2. (k = "CR") \in BOOLEAN
      OBVIOUS
    <2>3. PICK r : r = [d EXCEPT !.cr = (k = "CR")] /\ Live(b, r)
      BY <1>4, <2>2, Zenon
    <2>4. Good(b, m)
      BY <2>1, <2>3, NewRowKeeps, Zenon DEF Live
    <2> QED BY <1>1, <1>8, <2>4, Zenon DEF Ended, m
  <1>9. CASE k = "^C"
    <2>1. m = Editor!NewRow(Editor!Cleared(q))
      BY <1>2, <1>9, Zenon
    <2>2. Past(b, q.history, q.offset) /\ TRUE \in BOOLEAN
      BY <1>6, GoodIs, Zenon
    <2>3. Live(b, m)
      BY <1>6, <2>1, <2>2, ClearedKeeps, Zenon
    <2> QED BY <2>3, Zenon DEF Live, m
  <1>10. CASE k \notin {"CR", "LF", "^C"} /\ d.overflow
    <2>1. m = q
      BY <1>2, <1>10, Zenon
    <2> QED BY <1>6, <2>1, Zenon DEF m
  <1>11. CASE k \notin {"CR", "LF", "^C"} /\ ~d.overflow
    <2> SUFFICES Live(b, m)
      BY Zenon DEF Live, m
    <2>1. m = CASE d.escape > 0 -> Editor!EscapeByte(q, k)
              [] d.escape = 0 /\ k = "ESC" -> [q EXCEPT !.escape = 1]
              [] d.escape = 0 /\ k = "^A" -> Editor!Move(q, "H")
              [] d.escape = 0 /\ k = "^E" -> Editor!Move(q, "F")
              [] d.escape = 0 /\ k = "^U" -> Editor!CutTo(q, 0)
              [] d.escape = 0 /\ k = "^W" -> Editor!CutTo(q, Editor!WordStart(q))
              [] d.escape = 0 /\ k = "^D" -> Editor!Cut(q)
              [] d.escape = 0 /\ k = "^L" -> IF d.echo THEN Editor!Redraw(Editor!NewRow(q)) ELSE q
              [] d.escape = 0 /\ k = "BS" -> Editor!Backspace(q)
              [] d.escape = 0 /\ k \in Editor!Visible \cup Editor!InCSI \cup {"201", Editor!Secret} -> Editor!Insert(q, k)
              [] OTHER -> q
      BY <1>2, <1>11, Zenon
    <2>2. CASE d.escape > 0
      <3>0. d.escape # 0
        BY <2>2
      <3>1. m = Editor!EscapeByte(q, k)
        BY <2>1, <2>2, <3>0, Zenon
      <3>2. q.escape > 0
        BY <1>5, <2>2
      <3> QED BY <1>5, <3>1, <3>2, EscapeKeeps, Zenon
    <2>3. CASE ~(d.escape > 0) /\ d.escape = 0 /\ k = "ESC"
      <3> DEFINE r == [q EXCEPT !.escape = 1]
      <3>1. m = r
        BY <1>w, <2>1, <2>3, Zenon
      <3>2. /\ Shape(r) /\ SameText(r, q) /\ SameOffer(r, q) /\ SamePast(r, q) /\ r.shown = q.shown /\ r.col = q.col
            /\ r.escape = 1 /\ r.number = q.number /\ r.paste = q.paste /\ r.match = q.match
            /\ r.overflow = q.overflow /\ r.cr = q.cr /\ r.echo = q.echo /\ r.ansi = q.ansi
        <4>1. Shape(q)
          BY <1>5, Zenon
        <4> QED BY <4>1 DEF Shape, SameText, SameOffer, SamePast
      <3> HIDE DEF r
      <3>3. r.escape \in 0 .. 3 /\ r.escape # 3
        BY <3>2
      <3>4. Keys(b, r)
        BY <1>6, <3>2, <3>3, Zenon DEF Keys
      <3> QED BY <1>6, <3>1, <3>2, <3>4, KeyKeeps, Zenon DEF Live
    <2>4. CASE ~(d.escape > 0) /\ d.escape = 0 /\ k # "ESC"
      <3>1. Live(b, q) /\ Silent(q) /\ 0 \in Nat
        BY <1>5, <2>4
      <3>2. q.cursor \in Nat
        <4>1. Sized(b, q.line, q.cursor, q.echo)
          BY <1>6, GoodIs, Zenon
        <4>2. q.line \in Seq(Held(b, q.echo)) /\ q.cursor \in 0 .. Len(q.line)
          BY <4>1, Zenon DEF Sized
        <4> QED BY <4>2
      <3>3. CASE k = "^A"
        <4>1. m = Editor!Move(q, "H")
          BY <1>w, <2>1, <2>4, <3>3, Zenon
        <4> QED BY <3>1, <4>1, MoveKeeps, Zenon
      <3>4. CASE k = "^E"
        <4>1. m = Editor!Move(q, "F")
          BY <1>w, <2>1, <2>4, <3>4, Zenon
        <4> QED BY <3>1, <4>1, MoveKeeps, Zenon
      <3>5. CASE k = "^U"
        <4>1. m = Editor!CutTo(q, 0)
          BY <1>w, <2>1, <2>4, <3>5, Zenon
        <4> QED BY <3>1, <4>1, CutToKeeps, Zenon
      <3>6. CASE k = "^W"
        <4>1. m = Editor!CutTo(q, Editor!WordStart(q))
          BY <1>w, <2>1, <2>4, <3>6, Zenon
        <4> QED BY <3>1, <3>2, <4>1, WordStarts, CutToKeeps, Zenon
      <3>7. CASE k = "^D"
        <4>1. m = Editor!Cut(q)
          BY <1>w, <2>1, <2>4, <3>7, Zenon
        <4> QED BY <3>1, <4>1, CutKeeps, Zenon
      <3>8. CASE k = "^L"
        <4>1. m = IF d.echo THEN Editor!Redraw(Editor!NewRow(q)) ELSE q
          BY <1>w, <2>1, <2>4, <3>8, Zenon
        <4> QED BY <1>5, <1>6, <4>1, NewRowKeeps, RedrawKeeps, Zenon
      <3>9. CASE k = "BS"
        <4>1. m = Editor!Backspace(q)
          BY <1>w, <2>1, <2>4, <3>9, Zenon
        <4> QED BY <3>1, <4>1, BackspaceKeeps, Zenon
      <3>10. CASE k \notin {"^A", "^E", "^U", "^W", "^D", "^L", "BS"} /\ k \in Editor!Visible \cup Editor!InCSI \cup {"201", Editor!Secret}
        <4>1. m = Editor!Insert(q, k)
          BY <2>1, <2>4, <3>10, Zenon
        <4>2. k \in Held(b, q.echo)
          BY <1>1, <1>5, <3>10, Zenon DEF Sent
        <4> QED BY <3>1, <4>1, <4>2, InsertKeeps, Zenon
      <3>11. CASE k \notin {"^A", "^E", "^U", "^W", "^D", "^L", "BS"} /\ k \notin Editor!Visible \cup Editor!InCSI \cup {"201", Editor!Secret}
        <4>1. m = q
          BY <2>1, <2>4, <3>11, Zenon
        <4> QED BY <3>1, <4>1, Zenon
      <3> QED BY <3>3, <3>4, <3>5, <3>6, <3>7, <3>8, <3>9, <3>10, <3>11, Zenon
    <2>5. d.escape > 0 \/ (~(d.escape > 0) /\ d.escape = 0)
      BY <1>3 DEF Keys
    <2> QED BY <2>2, <2>3, <2>4, <2>5, Zenon
  <1> QED BY <1>7, <1>8, <1>9, <1>10, <1>11, Zenon

----------------------------------------------------------------------------
(* The event editor: the journal around a byte.                             *)

LEMMA EditorRecord ==
  \A j, l, c, n : Editor!Record(j, l, c, n) = Record(j, l, c, n)
  BY DEF Editor!Record, Editor!EndsWhole, Editor!Stands, Editor!Pushed, Record, EndsWhole, Stands, Pushed

LEMMA FramesAre ==
  ASSUME NEW b, NEW echo, NEW l, NEW c
  PROVE  /\ Sized(b, l, c, echo) => [line |-> l, cursor |-> c] \in Frames(b, echo)
         /\ \A f \in Frames(b, echo) : \A i : [f EXCEPT !.cursor = i] = [line |-> f.line, cursor |-> i]
         /\ \A f \in Frames(b, echo) : Sized(b, f.line, f.cursor, echo)
  <1> DEFINE S == Seq(Held(b, echo))
  <1>1. Sized(b, l, c, echo) => [line |-> l, cursor |-> c] \in Frames(b, echo)
    <2> SUFFICES ASSUME Sized(b, l, c, echo) PROVE [line |-> l, cursor |-> c] \in Frames(b, echo)
      OBVIOUS
    <2>1. l \in S /\ Len(l) <= b.capacity /\ c \in 0 .. Len(l) /\ Len(l) \in Nat
      BY DEF Sized
    <2>2. c \in Nat
      BY <2>1
    <2> HIDE DEF S
    <2> QED BY <2>1, <2>2 DEF Frames, S
  <1>2. \A f \in Frames(b, echo) : f \in [line : S, cursor : Nat] /\ Len(f.line) <= b.capacity /\ f.cursor \in 0 .. Len(f.line)
    BY DEF Frames
  <1> HIDE DEF S
  <1>3. \A f \in Frames(b, echo) : \A i : [f EXCEPT !.cursor = i] = [line |-> f.line, cursor |-> i]
    BY <1>2
  <1>4. \A f \in Frames(b, echo) : Sized(b, f.line, f.cursor, echo)
    <2> TAKE f \in Frames(b, echo)
    <2>1. f.line \in S
      BY <1>2
    <2> QED BY <1>2, <2>1, Zenon DEF Sized, S
  <1> QED BY <1>1, <1>3, <1>4, Zenon

\* An editor with a journal draws no suggestion.
LEMMA JournalSilent ==
  ASSUME NEW b, NEW d, Good(b, d), b.slots # 0
  PROVE  Silent(d)
  <1>1. Offer(b, d.line, d.cursor, d.ghost, d.space, d.history, d.echo)
    BY GoodIs, Zenon
  <1>2. d.ghost = <<>>
    BY <1>1, Zenon DEF Offer, Offered
  <1>3. d.space \in BOOLEAN /\ ~d.space
    BY <1>1, <1>2, Zenon DEF Offer
  <1>4. d.space = FALSE
    BY <1>3
  <1> QED BY <1>2, <1>4, Zenon DEF Silent

\* Another journal, with nothing suggested.
LEMMA JournalKeeps ==
  ASSUME NEW b, NEW d, Good(b, d), NEW j, Steps(b, j, d.echo)
  PROVE  \E r : /\ r = [d EXCEPT !.journal = j] /\ Good(b, r) /\ (Synced(d) => Synced(r))
                /\ SameKeys(r, d) /\ SameText(r, d) /\ r.journal = j /\ Shape(r)
  <1> DEFINE r == [d EXCEPT !.journal = j]
  <1>s. Shape(d)
    BY GoodIs, Zenon
  <1>1. /\ Shape(r) /\ SameText(r, d) /\ SameOffer(r, d) /\ SameKeys(r, d) /\ r.history = d.history
        /\ r.offset = d.offset /\ r.journal = j /\ r.shown = d.shown /\ r.col = d.col
    BY <1>s DEF Shape, SameText, SameOffer, SameKeys
  <1>2. r = [d EXCEPT !.journal = j]
    BY Zenon
  <1> HIDE DEF r
  <1>3. Keys(b, r)
    BY <1>1, GoodIs, KeysSame, Zenon
  <1>4. Good(b, r)
    BY <1>1, <1>3, GoodIs, Zenon DEF Good, SameText, SameOffer, SameKeys
  <1>5. Synced(d) => Synced(r)
    BY <1>1, Zenon DEF Synced, Showing, SameText, SameOffer, SameKeys
  <1> QED BY <1>1, <1>2, <1>4, <1>5, Zenon

LEMMA RecordedKeeps ==
  ASSUME NEW b \in Builds, build = b, NEW d, Good(b, d)
  PROVE  \E r : /\ r = Editor!Recorded(d) /\ Good(b, r) /\ (Synced(d) => Synced(r))
                /\ SameKeys(r, d) /\ SameText(r, d)
  <1>1. CASE b.slots = 0
    <2>1. Editor!Recorded(d) = d
      BY <1>1, Zenon DEF Editor!Recorded
    <2> QED BY <2>1, Zenon DEF SameKeys, SameText
  <1>2. CASE b.slots # 0
    <2> DEFINE F == Frames(b, d.echo)
               j == Record(d.journal, d.line, d.cursor, b.slots)
    <2>1. b.slots \in Nat /\ b.slots > 0
      <3>1. b.slots \in Nat
        BY BuildIs, Zenon
      <3> QED BY <1>2, <3>1
    <2>2. IsJournal(d.journal, F, b.slots) /\ Sized(b, d.line, d.cursor, d.echo)
      BY <1>2, GoodIs, Zenon DEF Steps
    <2>3. [line |-> d.line, cursor |-> d.cursor] \in F
      BY <2>2, FramesAre, Zenon
    <2>4. \A f \in F : \A i : [f EXCEPT !.cursor = i] = [line |-> f.line, cursor |-> i]
      BY FramesAre, Zenon
    <2>5. Editor!Recorded(d) = [d EXCEPT !.journal = j]
      BY <1>2, EditorRecord, Zenon DEF Editor!Recorded
    <2> DEFINE n == b.slots
               was == d.journal
               l == d.line
               c == d.cursor
    <2>6. IsJournal(j, F, n)
      <3>1. n \in Nat /\ n > 0 /\ IsJournal(was, F, n) /\ [line |-> l, cursor |-> c] \in F
        BY <2>1, <2>2, <2>3, Zenon
      <3> HIDE DEF F, n, was, l, c
      <3>2. IsJournal(Record(was, l, c, n), F, n)
        BY <2>4, <3>1, RecordKeeps
      <3> QED BY <3>2, Zenon DEF n, was, l, c
    <2>7. Steps(b, j, d.echo)
      BY <1>2, <2>6, Zenon DEF Steps
    <2> HIDE DEF j
    <2> QED BY <2>5, <2>7, JournalKeeps, Zenon
  <1> QED BY <1>1, <1>2

\* ps_undo_step: the line is that of another snapshot.
LEMMA UndoStepKeeps ==
  ASSUME NEW b \in Builds, build = b, b.slots # 0, NEW d, Live(b, d), NEW k \in {-1, 1}
  PROVE  Live(b, Editor!UndoStep(d, k))
  <1> DEFINE s == Editor!Recorded(d)
  <1>1. Good(b, s) /\ Synced(s)
    BY RecordedKeeps, Zenon DEF Live
  <1> DEFINE r == [s EXCEPT !.escape = 0]
             m == Editor!UndoStep(d, k)
  <1>2. m = IF ~Editor!Reaches(r.journal, r.journal.at + k) THEN r
            ELSE Editor!Redraw([r EXCEPT !.journal.at = @ + k, !.overflow = FALSE,
                    !.line = r.journal.frames[r.journal.at + k].line, !.cursor = r.journal.frames[r.journal.at + k].cursor])
    BY Zenon DEF Editor!UndoStep
  <1> HIDE DEF s
  <1>3. Shape(s) /\ Keys(b, s)
    BY <1>1, GoodIs, Zenon
  <1>4. /\ Shape(r) /\ SameText(r, s) /\ SameOffer(r, s) /\ SamePast(r, s) /\ r.shown = s.shown /\ r.col = s.col
        /\ r.escape = 0 /\ r.number = s.number /\ r.paste = s.paste /\ r.match = s.match
        /\ r.overflow = s.overflow /\ r.cr = s.cr /\ r.echo = s.echo /\ r.ansi = s.ansi
    BY <1>3 DEF Shape, SameText, SameOffer, SamePast
  <1> HIDE DEF r
  <1>5. Keys(b, r)
    BY <1>3, <1>4 DEF Keys
  <1>6. Live(b, r)
    BY <1>1, <1>4, <1>5, KeyKeeps, Zenon DEF Live
  <1>7. CASE ~Editor!Reaches(r.journal, r.journal.at + k)
    BY <1>2, <1>6, <1>7, Zenon
  <1>8. CASE Editor!Reaches(r.journal, r.journal.at + k)
    <2> DEFINE j == r.journal
               i == r.journal.at + k
               f == j.frames[i]
               F == Frames(b, r.echo)
               h == [j EXCEPT !.at = i]
               q == [r EXCEPT !.journal = h, !.overflow = FALSE, !.line = f.line, !.cursor = f.cursor]
    <2>1. Good(b, r) /\ Steps(b, j, r.echo) /\ r.echo \in BOOLEAN
      BY <1>6, GoodIs, Zenon DEF Live
    <2>2. IsJournal(j, F, b.slots)
      BY <2>1, Zenon DEF Steps
    <2>3. /\ j.frames \in Seq(F) /\ i \in 1 .. Len(j.frames) /\ Len(j.frames) \in Nat
          /\ j \in [frames : Seq(F), at : Nat]
      <3> HIDE DEF F
      <3>1. j \in [frames : Seq(F), at : Nat]
        BY <2>2, Zenon DEF IsJournal
      <3>2. i \in 1 .. Len(j.frames)
        BY <1>8, Zenon DEF Editor!Reaches
      <3> HIDE DEF i, j
      <3> QED BY <3>1, <3>2
    <2>4. f \in F
      <3> HIDE DEF F, i, j
      <3> QED BY <2>3
    <2>5. Sized(b, f.line, f.cursor, r.echo)
      BY <2>4, FramesAre, Zenon
    <2>6. h = [frames |-> j.frames, at |-> i] /\ i \in Nat
      <3> HIDE DEF F, i, j
      <3> QED BY <2>3
    <2>7. IsJournal(h, F, b.slots)
      <3>1. Len(j.frames) <= b.slots /\ \A x \in 1 .. Len(j.frames) - 1 : j.frames[x].line # j.frames[x + 1].line
        BY <2>2, Zenon DEF IsJournal
      <3>2. i <= Len(j.frames)
        <4> HIDE DEF i, j
        <4> QED BY <2>3
      <3> HIDE DEF F, i, j, h
      <3>3. h \in [frames : Seq(F), at : Nat] /\ h.frames = j.frames /\ h.at = i
        BY <2>3, <2>6
      <3> QED BY <3>1, <3>2, <3>3, Zenon DEF IsJournal
    <2>8. Steps(b, h, r.echo)
      BY <2>7, Zenon DEF Steps
    <2>9. m = Editor!Redraw([r EXCEPT !.journal.at = r.journal.at + k, !.overflow = FALSE, !.line = f.line, !.cursor = f.cursor])
      BY <1>2, <1>8, Zenon
    <2>10. [r EXCEPT !.journal.at = r.journal.at + k, !.overflow = FALSE, !.line = f.line, !.cursor = f.cursor] = q
      BY <1>4 DEF Shape
    <2> HIDE DEF f, h
    <2>11. /\ Shape(q) /\ q.line = f.line /\ q.cursor = f.cursor /\ q.draft = r.draft /\ q.draftCursor = r.draftCursor
           /\ q.history = r.history /\ q.offset = r.offset /\ q.journal = h /\ q.ghost = r.ghost /\ q.space = r.space
           /\ q.shown = r.shown /\ q.col = r.col
           /\ q.escape = r.escape /\ q.number = r.number /\ q.paste = r.paste /\ q.match = r.match
           /\ q.overflow = FALSE /\ q.cr = r.cr /\ q.echo = r.echo /\ q.ansi = r.ansi
      <3>1. Shape(r)
        BY <1>4, Zenon
      <3> QED BY <3>1 DEF Shape
    <2> HIDE DEF q, i, j
    <2>12. Keys(b, q)
      <3>1. q.overflow \in BOOLEAN
        BY <2>11, Zenon
      <3> QED BY <1>5, <2>11, <3>1, Zenon DEF Keys
    <2>13. Silent(r)
      BY <2>1, JournalSilent, Zenon
    <2>14. Good(b, q)
      BY <2>1, <2>5, <2>8, <2>11, <2>12, <2>13, GoodIs, Rebuilt, Zenon DEF Silent
    <2> QED BY <2>9, <2>10, <2>14, RedrawKeeps, Zenon
  <1> QED BY <1>7, <1>8

\* The byte, between two snapshots unless it is pasted.
LEMMA TypedKeeps ==
  ASSUME NEW b \in Builds, build = b, NEW d, Live(b, d), NEW k, Sent(b, k, d.echo)
  PROVE  Good(b, Editor!Typed(d, k)) /\ (Synced(Editor!Typed(d, k)) \/ Editor!Asks(d, k) \in {"submit", "tooLong"})
  <1> DEFINE r == IF d.paste THEN Editor!Inner(d, k) ELSE Editor!Recorded(Editor!Inner(Editor!Recorded(d), k))
  <1>1. Good(b, r) /\ (Synced(r) \/ Ended(d, k))
    <2>1. CASE d.paste
      BY <2>1, InnerKeeps, Zenon
    <2>2. CASE ~d.paste
      <3>1. PICK s : s = Editor!Recorded(d) /\ Live(b, s) /\ SameKeys(s, d)
        BY RecordedKeeps, Zenon DEF Live
      <3>2. Sent(b, k, s.echo) /\ (Ended(s, k) => Ended(d, k))
        BY <3>1, Zenon DEF SameKeys, Ended
      <3>3. Good(b, Editor!Inner(s, k)) /\ (Synced(Editor!Inner(s, k)) \/ Ended(s, k))
        BY <3>1, <3>2, InnerKeeps, Zenon
      <3>4. Good(b, Editor!Recorded(Editor!Inner(s, k)))
            /\ (Synced(Editor!Inner(s, k)) => Synced(Editor!Recorded(Editor!Inner(s, k))))
        BY <3>3, RecordedKeeps, Zenon
      <3>5. r = Editor!Recorded(Editor!Inner(s, k))
        BY <2>2, <3>1, Zenon
      <3> QED BY <3>2, <3>3, <3>4, <3>5, Zenon
    <2> QED BY <2>1, <2>2
  <1>2. Ended(d, k) => Editor!Asks(d, k) \in {"submit", "tooLong"}
    <2> SUFFICES ASSUME Ended(d, k) PROVE Editor!Asks(d, k) \in {"submit", "tooLong"}
      OBVIOUS
    <2>1. k \in {"CR", "LF"} /\ ~(d.cr /\ k = "LF") /\ k \notin {"^C", "TAB", "^D"}
      BY DEF Ended
    <2>2. Editor!Asks(d, k) = IF d.overflow THEN "tooLong" ELSE "submit"
      BY <2>1, Zenon DEF Editor!Asks
    <2> QED BY <2>2, Zenon
  <1>3. Editor!Typed(d, k) = IF Editor!Asks(d, k) \in {"submit", "tooLong", "cancel"} THEN [r EXCEPT !.journal = Editor!Empty] ELSE r
    BY Zenon DEF Editor!Typed
  <1> HIDE DEF r
  <1>4. CASE Editor!Asks(d, k) \notin {"submit", "tooLong", "cancel"}
    BY <1>1, <1>2, <1>3, <1>4, Zenon
  <1>5. CASE Editor!Asks(d, k) \in {"submit", "tooLong", "cancel"}
    <2>1. Steps(b, Editor!Empty, r.echo)
      BY EmptyJournal, Zenon
    <2>2. PICK s : s = [r EXCEPT !.journal = Editor!Empty] /\ Good(b, s) /\ (Synced(r) => Synced(s))
      <3>1. Good(b, r)
        BY <1>1, Zenon
      <3>2. \E s : /\ s = [r EXCEPT !.journal = Editor!Empty] /\ Good(b, s) /\ (Synced(r) => Synced(s))
                   /\ SameKeys(s, r) /\ SameText(s, r) /\ s.journal = Editor!Empty /\ Shape(s)
        BY <2>1, <3>1, JournalKeeps, Zenon
      <3> QED BY <3>2, Zenon
    <2> QED BY <1>1, <1>2, <1>3, <1>5, <2>2, Zenon
  <1> QED BY <1>4, <1>5, Zenon

----------------------------------------------------------------------------
(* The event editor: what the program does with it.                         *)

\* One prefix that the sequences of a set share is the longest.
LEMMA SharedPrefix ==
  ASSUME NEW T, NEW S \in SUBSET Seq(T), S # {}
  PROVE  Editor!LongestCommonPrefix(S) \in Seq(T)
  <1> DEFINE shared == Editor!CommonPrefixes(S)
             L == {Len(p) : p \in shared}
  <1>1. PICK s \in S : s \in Seq(T)
    OBVIOUS
  <1>2. ASSUME NEW t \in S PROVE Editor!Prefixes(t) \subseteq Seq(T)
    <2> SUFFICES ASSUME NEW p \in Editor!Prefixes(t) PROVE p \in Seq(T)
      OBVIOUS
    <2>1. t \in Seq(T) /\ Len(t) \in Nat
      OBVIOUS
    <2>2. CASE p = <<>>
      BY <2>2
    <2>3. CASE p # <<>>
      <3>1. \E i \in 0 .. Len(t) : p = SubSeq(t, 1, i)
        BY <2>1, <2>3 DEF Editor!Prefixes
      <3>2. PICK i \in 0 .. Len(t) : p = SubSeq(t, 1, i)
        BY <3>1
      <3> QED BY <2>1, <3>2
    <2> QED BY <2>2, <2>3
  <1>3. shared \subseteq Seq(T) /\ \A p \in shared : Editor!IsPrefix(p, s)
    BY <1>2, <1>1, Zenon DEF Editor!CommonPrefixes
  <1>4. <<>> \in shared
    <2>1. <<>> \in Editor!Prefixes(s)
      BY <1>1, SMT DEF Editor!Prefixes
    <2>2. \A t \in S : Editor!IsPrefix(<<>>, t)
      <3> TAKE t \in S
      <3>1. t \in Seq(T)
        OBVIOUS
      <3>2. <<>> \in Seq(T) /\ Begins(<<>>, t)
        BY <3>1 DEF Begins
      <3> QED BY <3>1, <3>2, PrefixIs, Zenon
    <2> QED BY <2>1, <2>2, Zenon DEF Editor!CommonPrefixes
  <1>5. L \in SUBSET (0 .. Len(s)) /\ Len(s) \in Nat
    <2>1. \A p \in shared : Len(p) \in Nat /\ Len(p) <= Len(s)
      <3> TAKE p \in shared
      <3>1. p \in Seq(T) /\ Len(p) <= Len(s)
        BY <1>3, Zenon DEF Editor!IsPrefix
      <3> QED BY <3>1
    <2> HIDE DEF shared
    <2> QED BY <1>1, <2>1
  <1>6. L # {}
    BY <1>4, Zenon
  <1> HIDE DEF L
  <1>7. PICK n \in L : \A m \in L : n >= m
    BY <1>5, <1>6, GreatestIn
  <1>8. \E p \in shared : \A q \in shared : Len(q) <= Len(p)
    <2> HIDE DEF shared
    <2>1. PICK p \in shared : n = Len(p)
      BY <1>7, Zenon DEF L
    <2>2. \A q \in shared : Len(q) \in L
      BY Zenon DEF L
    <2>3. \A q \in shared : Len(q) <= Len(p)
      BY <1>5, <1>7, <2>1, <2>2
    <2> QED BY <2>3
  <1>9. Editor!LongestCommonPrefix(S) \in shared
    BY <1>8, Zenon DEF Editor!LongestCommonPrefix
  <1> QED BY <1>3, <1>9, Zenon

LEMMA NamesAre == ASSUME NEW b \in Builds PROVE Editor!Range(Names) \subseteq Seq(Typeable(b))
  <1> DEFINE V == b.visible
             S == Seq(V)
             T == Typeable(b)
  <1>1. Names \in Seq(S)
    BY EditorAssumption, Zenon
  <1>2. V \subseteq T
    BY Zenon DEF Typeable
  <1> HIDE DEF V, T
  <1>3. \A l : l \in S => l \in Seq(T)
    BY <1>2
  <1> HIDE DEF S
  <1>4. \A n \in Editor!Range(Names) : n \in S
    BY <1>1 DEF Editor!Range
  <1> QED BY <1>3, <1>4, Zenon DEF T

LEMMA PastAre ==
  ASSUME NEW b, NEW h, NEW o, Past(b, h, o)
  PROVE  Editor!Range(h) \subseteq Seq(Typeable(b))
  <1> DEFINE S == Seq(Typeable(b))
  <1>1. h \in Seq(S)
    BY Zenon DEF Past
  <1> HIDE DEF S
  <1>2. \A n \in Editor!Range(h) : n \in S
    BY <1>1 DEF Editor!Range
  <1> QED BY <1>2, Zenon DEF S

\* ps_editor_complete.
LEMMA CompleteKeeps ==
  ASSUME NEW b \in Builds, build = b, Live(b, e), Editor!Complete
  PROVE  Live(b, e') /\ build' = build /\ event' = "none"
  <1> DEFINE d == Editor!EraseGhost(e)
             names == {n \in Editor!Range(Names) : Editor!IsPrefix(e.line, n)}
             tail == IF Editor!Cardinality(names) = 1 THEN <<Editor!Space>> ELSE <<>>
             shared == Editor!LongestCommonPrefix(names)
             word == shared \o tail
             q == [d EXCEPT !.line = word, !.cursor = Len(word), !.offset = 0, !.draft = <<>>, !.draftCursor = 0]
             stays == e.overflow \/ e.escape > 0 \/ e.cursor # Len(e.line)
  <1>0. build' = build
    BY DEF Editor!Complete
  <1>1. /\ event' = "none"
        /\ stays => e' = e
        /\ ~stays /\ (names = {} \/ Len(word) > build.capacity) => e' = d
        /\ ~stays /\ ~(names = {} \/ Len(word) > build.capacity) =>
             e' = IF Len(word) > Len(e.line) THEN Editor!Redraw(q) ELSE Editor!Redraw(Editor!NewRow(d))
    <2> DEFINE big == names = {} \/ Len(word) > build.capacity
    <2>1. /\ event' = "none"
          /\ e' = CASE stays -> e
                 [] ~stays /\ big -> d
                 [] OTHER -> IF Len(word) > Len(e.line) THEN Editor!Redraw(q) ELSE Editor!Redraw(Editor!NewRow(d))
      BY Zenon DEF Editor!Complete
    <2> HIDE DEF d, q, stays, big, word, names
    <2>2. ~stays /\ ~big => e' = IF Len(word) > Len(e.line) THEN Editor!Redraw(q) ELSE Editor!Redraw(Editor!NewRow(d))
      BY <2>1
    <2>3. stays => e' = e
      BY <2>1
    <2>4. ~stays /\ big => e' = d
      BY <2>1
    <2> QED BY <2>1, <2>2, <2>3, <2>4, Zenon DEF big
  <1>2. Live(b, d) /\ Silent(d) /\ Good(b, d) /\ SameKeys(d, e)
    <2>1. Live(b, d) /\ d.ghost = <<>> /\ d.space = FALSE /\ SameKeys(d, e)
      BY EraseKeeps, Zenon
    <2> QED BY <2>1, Zenon DEF Live, Silent
  <1>s. Shape(d)
    BY <1>2, GoodIs, Zenon
  <1> HIDE DEF d, q, stays
  <1>3. CASE stays
    BY <1>0, <1>1, <1>3, Zenon
  <1>4. CASE ~stays /\ (names = {} \/ Len(word) > build.capacity)
    BY <1>0, <1>1, <1>2, <1>4, Zenon
  <1>5. CASE ~stays /\ ~(names = {} \/ Len(word) > build.capacity)
    <2> DEFINE T == Typeable(b)
    <2>1. e' = IF Len(word) > Len(e.line) THEN Editor!Redraw(q) ELSE Editor!Redraw(Editor!NewRow(d))
      BY <1>1, <1>5, Zenon
    <2>2. shared \in Seq(T)
      <3>1. names \in SUBSET Seq(T) /\ names # {}
        BY <1>5, NamesAre, Zenon
      <3> HIDE DEF T, names
      <3> QED BY <3>1, SharedPrefix, Zenon
    <2>3. tail \in Seq(T)
      <3>1. Editor!Space \in T
        BY HeldIs, Zenon
      <3> HIDE DEF T
      <3>2. <<Editor!Space>> \in Seq(T)
        BY <3>1
      <3>3. <<>> \in Seq(T)
        OBVIOUS
      <3> QED BY <3>2, <3>3, Zenon
    <2> HIDE DEF shared, tail
    <2>4. word \in Seq(T)
      <3> HIDE DEF T
      <3> QED BY <2>2, <2>3
    <2>5. ~(Len(word) > b.capacity)
      BY <1>5, Zenon
    <2> HIDE DEF word, names
    <2>6. Len(word) \in Nat /\ Len(word) <= b.capacity /\ Len(word) \in 0 .. Len(word)
      <3>1. b.capacity \in Nat
        BY BuildIs, Zenon
      <3>2. Len(word) \in Nat
        BY <2>4
      <3> QED BY <2>5, <3>1, <3>2
    <2>7. /\ Shape(q) /\ q.line = word /\ q.cursor = Len(word) /\ q.draft = <<>> /\ q.draftCursor = 0
          /\ q.history = d.history /\ q.offset = 0 /\ q.journal = d.journal
          /\ SameKeys(q, d) /\ q.ghost = d.ghost /\ q.space = d.space /\ q.shown = d.shown /\ q.col = d.col
      BY <1>s DEF q, Shape, SameKeys
    <2>8. d.echo \in BOOLEAN /\ Past(b, d.history, d.offset) /\ Steps(b, d.journal, d.echo) /\ Row(b, d.shown, d.col, d.echo)
      BY <1>2, GoodIs, Zenon
    <2>9. Sized(b, word, Len(word), d.echo)
      BY <2>4, <2>6, <2>8, WiderLine, Zenon
    <2>10. Past(b, d.history, 0)
      BY <2>8 DEF Past
    <2>11. Keys(b, q) /\ q.echo = d.echo
      BY <1>2, <2>7, GoodIs, KeysSame, Zenon DEF SameKeys
    <2>12. Sized(b, <<>>, 0, d.echo)
      BY NoLine, Zenon
    <2>13. Good(b, q)
      BY <1>2, <2>7, <2>8, <2>9, <2>10, <2>11, <2>12, Rebuilt, Zenon DEF Silent
    <2> QED BY <1>0, <1>1, <1>2, <2>1, <2>13, RedrawKeeps, NewRowKeeps, Zenon
  <1> QED BY <1>0, <1>1, <1>3, <1>4, <1>5, Zenon

\* ps_editor_remember: the history stays within its limit.
LEMMA RememberKeeps ==
  ASSUME NEW b \in Builds, build = b, NEW d, Good(b, d), NEW allowed
  PROVE  Keys(b, Editor!Remember(d, allowed)) /\ Past(b, Editor!Remember(d, allowed).history, Editor!Remember(d, allowed).offset)
  <1> DEFINE was == d.history
             h == <<d.line>> \o was
             n == IF Len(was) < b.limit THEN Len(was) + 1 ELSE b.limit
             v == SubSeq(h, 1, n)
             r == [d EXCEPT !.history = v, !.offset = 0]
             m == Editor!Remember(d, allowed)
  <1>0. Keys(b, d) /\ Past(b, was, d.offset) /\ Shape(d)
    BY GoodIs, Zenon
  <1>1. CASE ~allowed \/ ~d.echo \/ d.overflow \/ build.limit = 0 \/ (was # <<>> /\ was[1] = d.line)
    <2>1. m = d
      BY <1>1, Zenon DEF Editor!Remember
    <2> QED BY <1>0, <2>1, Zenon
  <1>2. CASE ~(~allowed \/ ~d.echo \/ d.overflow \/ build.limit = 0 \/ (was # <<>> /\ was[1] = d.line))
    <2>1. m = r
      BY <1>2, Zenon DEF Editor!Remember
    <2> DEFINE S == Seq(Typeable(b))
               Short == {l \in S : Len(l) <= b.capacity}
               l == d.line
    <2>2. l \in Short
      <3>1. d.line \in S
        BY <1>2, Echoed, Zenon
      <3>2. Len(d.line) <= b.capacity
        BY GoodIs, Zenon DEF Sized
      <3> QED BY <3>1, <3>2, Zenon
    <2>3. was \in Seq(Short) /\ Len(was) \in Nat /\ b.limit \in Nat /\ Len(was) <= b.limit
      <3>1. was \in Seq(S) /\ Len(was) <= b.limit /\ \A i \in 1 .. Len(was) : Len(was[i]) <= b.capacity
        BY <1>0, Zenon DEF Past
      <3>2. b.limit \in Nat
        BY BuildIs, Zenon
      <3> HIDE DEF S, was
      <3>3. \A i \in 1 .. Len(was) : was[i] \in Short
        BY <3>1
      <3> HIDE DEF Short
      <3>4. Len(was) \in Nat /\ was \in [1 .. Len(was) -> Short]
        BY <3>1, <3>3
      <3> QED BY <3>1, <3>2, <3>4
    <2> HIDE DEF Short, l, was
    <2>4. PICK one : one = <<l>> /\ one \in Seq(Short) /\ Len(one) = 1
      <3>1. <<l>> \in Seq(Short) /\ Len(<<l>>) = 1
        BY <2>2
      <3> QED BY <3>1, Zenon
    <2>5. one \in Seq(Short) /\ Len(one) = 1
      BY <2>4, Zenon
    <2>6. one \o was \in Seq(Short) /\ Len(one \o was) = 1 + Len(was)
      BY <2>3, <2>5, Joined
    <2>7. h = one \o was
      BY <2>4, Zenon DEF l
    <2> HIDE DEF h
    <2>8. h \in Seq(Short) /\ Len(h) = 1 + Len(was)
      BY <2>6, <2>7, Zenon
    <2>9. n \in Nat /\ n <= Len(h) /\ n <= b.limit
      BY <2>3, <2>8
    <2> HIDE DEF n
    <2>10. v \in Seq(Short) /\ Len(v) = n
      BY <2>8, <2>9
    <2> HIDE DEF v
    <2>11. v \in Seq(S) /\ \A i \in 1 .. Len(v) : Len(v[i]) <= b.capacity
      <3>1. \A i \in 1 .. Len(v) : v[i] \in Short
        BY <2>10
      <3>2. \A i \in 1 .. Len(v) : v[i] \in S /\ Len(v[i]) <= b.capacity
        BY <3>1, Zenon DEF Short
      <3> HIDE DEF S
      <3>3. v \in [1 .. Len(v) -> S] /\ Len(v) \in Nat
        BY <2>10, <3>2
      <3> QED BY <3>2, <3>3
    <2>12. Past(b, v, 0)
      <3>1. 0 \in 0 .. Len(v) /\ Len(v) <= b.limit
        BY <2>9, <2>10
      <3> QED BY <2>11, <3>1, Zenon DEF Past
    <2>13. SameKeys(r, d) /\ r.history = v /\ r.offset = 0
      <3>1. Shape(d)
        BY <1>0, Zenon
      <3> QED BY <3>1 DEF Shape, SameKeys
    <2> HIDE DEF r
    <2> QED BY <1>0, <2>1, <2>12, <2>13, KeysSame, Zenon DEF m
  <1> QED BY <1>1, <1>2

----------------------------------------------------------------------------
(* The event editor: a suggestion is offered.                               *)

\* What continues a line is the line and its suffix.
LEMMA Continued ==
  ASSUME NEW T, NEW l \in Seq(T), NEW t \in Seq(T), Editor!IsPrefix(l, t)
  PROVE  \E g \in Seq(T) : g = SubSeq(t, Len(l) + 1, Len(t)) /\ l \o g = t
  <1> DEFINE g == SubSeq(t, Len(l) + 1, Len(t))
  <1>1. Begins(l, t) /\ Len(l) \in Nat /\ Len(t) \in Nat
    BY PrefixIs
  <1>2. Len(l) <= Len(t) /\ \A p \in 1 .. Len(l) : t[p] = l[p]
    BY <1>1 DEF Begins
  <1>3. g \in Seq(T) /\ Len(g) = Len(t) - Len(l) /\ \A p \in 1 .. Len(t) - Len(l) : g[p] = t[p + Len(l)]
    BY <1>1, <1>2
  <1> HIDE DEF g
  <1>4. l \o g \in Seq(T) /\ Len(l \o g) = Len(l) + Len(g)
    BY <1>3, Joined
  <1>5. \A p \in 1 .. Len(l) + Len(g) : (l \o g)[p] = IF p <= Len(l) THEN l[p] ELSE g[p - Len(l)]
    BY <1>3, JoinedAt
  <1> DEFINE j == l \o g
  <1>6. j \in Seq(T) /\ Len(j) = Len(l) + Len(g)
        /\ \A p \in 1 .. Len(l) + Len(g) : j[p] = IF p <= Len(l) THEN l[p] ELSE g[p - Len(l)]
    BY <1>4, <1>5
  <1> HIDE DEF j
  <1>7. Len(t) = Len(j)
    BY <1>1, <1>2, <1>3, <1>6
  <1>8. \A p \in 1 .. Len(j) : j[p] = t[p]
    <2> SUFFICES ASSUME NEW p \in 1 .. Len(j) PROVE j[p] = t[p]
      OBVIOUS
    <2>1. CASE p <= Len(l)
      BY <1>1, <1>2, <1>3, <1>6, <2>1
    <2>2. CASE ~(p <= Len(l))
      <3>1. p - Len(l) \in 1 .. Len(t) - Len(l) /\ (p - Len(l)) + Len(l) = p
        BY <1>1, <1>2, <1>3, <1>6, <2>2
      <3>2. g[p - Len(l)] = t[p]
        BY <1>3, <3>1
      <3> QED BY <1>1, <1>3, <1>6, <2>2, <3>2
    <2> QED BY <2>1, <2>2
  <1>9. j = t
    BY <1>6, <1>7, <1>8, SameRow
  <1> QED BY <1>3, <1>9 DEF g, j

\* A tail written after the whole of a line.
LEMMA Appended ==
  ASSUME NEW T, Editor!Space \in T, NEW l \in Seq(T), NEW g \in Seq(T)
  PROVE  Editor!Over(l, Len(l), g) = l \o g /\ l \o g \in Seq(T)
  <1> DEFINE o == Editor!Over(l, Len(l), g)
             j == l \o g
  <1>0. Len(l) \in Nat /\ Len(g) \in Nat
    OBVIOUS
  <1>1. /\ o \in Seq(T) /\ Len(o) = IF Len(l) > Len(l) + Len(g) THEN Len(l) ELSE Len(l) + Len(g)
        /\ \A p \in 1 .. Len(o) : o[p] = IF p > Len(l) /\ p <= Len(l) + Len(g) THEN g[p - Len(l)]
                                         ELSE IF p <= Len(l) THEN l[p] ELSE Editor!Space
    BY <1>0, OverIs
  <1>2. j \in Seq(T) /\ Len(j) = Len(l) + Len(g)
        /\ \A p \in 1 .. Len(l) + Len(g) : j[p] = IF p <= Len(l) THEN l[p] ELSE g[p - Len(l)]
    BY Joined, JoinedAt
  <1> HIDE DEF o, j
  <1>3. Len(o) = Len(j) /\ \A p \in 1 .. Len(o) : o[p] = j[p]
    <2>1. Len(o) = Len(l) + Len(g)
      BY <1>0, <1>1
    <2>2. ASSUME NEW p \in 1 .. Len(o) PROVE o[p] = j[p]
      <3>1. p \in 1 .. Len(l) + Len(g) /\ p \in Nat
        BY <1>0, <2>1
      <3>2. CASE p <= Len(l)
        <4>1. o[p] = l[p]
          BY <1>0, <1>1, <3>1, <3>2
        <4>2. j[p] = l[p]
          BY <1>2, <3>1, <3>2
        <4> QED BY <4>1, <4>2
      <3>3. CASE ~(p <= Len(l))
        <4>1. o[p] = g[p - Len(l)]
          <5>1. p > Len(l) /\ p <= Len(l) + Len(g)
            BY <1>0, <3>1, <3>3
          <5> QED BY <1>1, <5>1, Zenon
        <4>2. j[p] = g[p - Len(l)]
          BY <1>2, <3>1, <3>3
        <4> QED BY <4>1, <4>2
      <3> QED BY <3>2, <3>3
    <2> QED BY <1>2, <2>1, <2>2
  <1>4. o = j
    BY <1>1, <1>2, <1>3, SameRow
  <1> QED BY <1>2, <1>4 DEF o, j

\* What the program may suggest.
LEMMA OffersAre ==
  ASSUME NEW b \in Builds, NEW d, Past(b, d.history, d.offset), NEW i \in 1 .. Len(Editor!Offers(d))
  PROVE  \E o : /\ o = Editor!Offers(d)[i] /\ o.space \in BOOLEAN
                /\ o.of \in Editor!Range(d.history) \cup Editor!Range(Names)
  <1> DEFINE h == d.history
             m == Names
             R == Editor!Range(h) \cup Editor!Range(m)
             O == [of : R, space : BOOLEAN]
             x == [k \in 1 .. Len(h) |-> [of |-> h[k], space |-> FALSE]]
             y == [k \in 1 .. Len(m) |-> [of |-> m[k], space |-> TRUE]]
  <1>1. h \in Seq(Seq(Typeable(b)))
    BY Zenon DEF Past
  <1>2. m \in Seq(Seq(b.visible))
    BY EditorAssumption, Zenon
  <1> DEFINE S == Seq(Typeable(b))
             V == Seq(b.visible)
  <1> HIDE DEF S, V
  <1>3. h \in Seq(S) /\ m \in Seq(V)
    BY <1>1, <1>2 DEF S, V
  <1>4. Editor!Offers(d) = x \o y
    BY Zenon DEF Editor!Offers
  <1> HIDE DEF h, m
  <1>5. Len(h) \in Nat /\ Len(m) \in Nat
    BY <1>3
  <1>6. (\A k \in 1 .. Len(h) : h[k] \in R) /\ (\A k \in 1 .. Len(m) : m[k] \in R)
    <2>1. DOMAIN h = 1 .. Len(h) /\ DOMAIN m = 1 .. Len(m)
      BY <1>3
    <2> QED BY <2>1, Zenon DEF Editor!Range
  <1> HIDE DEF R
  <1>7. x \in Seq(O) /\ y \in Seq(O)
    BY <1>5, <1>6
  <1> HIDE DEF x, y
  <1>8. x \o y \in Seq(O)
    BY <1>7
  <1> DEFINE z == x \o y
  <1> HIDE DEF z
  <1>9. z \in Seq(O) /\ i \in 1 .. Len(z) /\ Editor!Offers(d) = z
    BY <1>4, <1>8 DEF z
  <1> HIDE DEF O
  <1>10. z[i] \in O
    BY <1>9
  <1>11. \E o : o = z[i] /\ o.space \in BOOLEAN /\ o.of \in R
    BY <1>10 DEF O
  <1> QED BY <1>9, <1>11, Zenon DEF R, h, m

\* ps_editor_suggest.
LEMMA SuggestKeeps ==
  ASSUME NEW b \in Builds, build = b, Live(b, e), Editor!Suggest, b.slots = 0 \/ ~b.offers
  PROVE  Live(b, e') /\ build' = build /\ event' = event
  <1> DEFINE d == Editor!EraseGhost(e)
             T == Typeable(b)
             fits == {i \in 1 .. Len(Editor!Offers(d)) : Editor!Continues(d, Editor!Offers(d)[i])}
             n == CHOOSE i \in fits : \A k \in fits : i <= k
             a == Editor!Offers(d)[n]
             g == Editor!Suffix(d, a.of)
             r == [d EXCEPT !.ghost = g, !.space = a.space, !.shown = Editor!Over(@, d.col, g)]
  <1>0. build' = build /\ event' = event
    BY DEF Editor!Suggest
  <1>1. /\ b.offers /\ e.echo /\ e.ansi /\ e.cursor = Len(e.line)
        /\ e' = IF fits = {} THEN d ELSE r
    BY Zenon DEF Editor!Suggest
  <1>2. Live(b, d) /\ Good(b, d) /\ d.ghost = <<>> /\ d.space = FALSE /\ SameKeys(d, e) /\ SameText(d, e)
    BY EraseKeeps, Zenon DEF Live
  <1>3. Shape(d) /\ Past(b, d.history, d.offset) /\ Keys(b, d) /\ Row(b, d.shown, d.col, d.echo) /\ Steps(b, d.journal, d.echo)
        /\ Sized(b, d.line, d.cursor, d.echo) /\ Sized(b, d.draft, d.draftCursor, d.echo)
    BY <1>2, GoodIs, Zenon
  <1>4. d.echo /\ d.ansi /\ d.cursor = Len(d.line) /\ d.ansi = b.ansi
    BY <1>1, <1>2, GoodIs, Zenon DEF SameKeys, SameText
  <1>5. d.col = d.cursor /\ d.shown = d.line
    BY <1>2, <1>4, Plainly, Zenon
  <1>6. d.line \in Seq(T) /\ d.echo = TRUE /\ Editor!Space \in T
    BY <1>2, <1>4, Echoed, HeldIs, Zenon
  <1> HIDE DEF d
  <1>7. CASE fits = {}
    BY <1>0, <1>1, <1>2, <1>7, Zenon
  <1>8. CASE fits # {}
    <2>1. n \in fits
      <3>1. fits \in SUBSET Nat
        OBVIOUS
      <3> HIDE DEF fits
      <3>2. \E x \in fits : \A y \in fits : x <= y
        BY <1>8, <3>1, LeastIn
      <3> QED BY <3>2, Zenon
    <2>2. n \in 1 .. Len(Editor!Offers(d)) /\ Editor!Continues(d, a)
      BY <2>1, Zenon
    <2> HIDE DEF n
    <2>3. a.space \in BOOLEAN /\ a.of \in Editor!Range(d.history) \cup Editor!Range(Names)
      BY <1>3, <2>2, OffersAre, Zenon
    <2>4. Editor!IsPrefix(d.line, a.of) /\ Editor!Fits(d, g, a.space)
      BY <2>2, Zenon DEF Editor!Continues
    <2> HIDE DEF a
    <2>5. a.of \in Seq(T)
      BY <1>3, <2>3, NamesAre, PastAre, Zenon
    <2> HIDE DEF T
    <2>6. g \in Seq(T) /\ d.line \o g = a.of
      <3>1. \E x \in Seq(T) : x = SubSeq(a.of, Len(d.line) + 1, Len(a.of)) /\ d.line \o x = a.of
        BY <1>6, <2>4, <2>5, Continued, ZenonT(60)
      <3> QED BY <3>1, Zenon DEF Editor!Suffix
    <2>7. g # <<>> /\ Len(d.line) + Len(g) + (IF a.space THEN 1 ELSE 0) <= b.capacity
      BY <2>4, Zenon DEF Editor!Fits
    <2> DEFINE o == Editor!Over(d.shown, d.col, g)
    <2>8. o = d.line \o g /\ o \in Seq(T)
      <3>1. Editor!Over(d.line, Len(d.line), g) = d.line \o g /\ d.line \o g \in Seq(T)
        BY <1>6, <2>6, Appended, Zenon
      <3> QED BY <1>4, <1>5, <3>1, Zenon
    <2>9. r = [d EXCEPT !.ghost = g, !.space = a.space, !.shown = o]
      BY <1>3 DEF Shape
    <2> HIDE DEF g, o, r
    <2>10. /\ Shape(r) /\ r.ghost = g /\ r.space = a.space /\ r.shown = o /\ r.col = d.col
           /\ SameText(r, d) /\ SameKeys(r, d) /\ SamePast(r, d)
      BY <1>3, <2>9 DEF Shape, SameText, SameKeys, SamePast
    <2>11. Offered(b, d.line, d.cursor, g, a.space, d.history, d.echo)
      BY <1>1, <1>4, <2>3, <2>6, <2>7, Zenon DEF Offered
    <2>12. Offer(b, d.line, d.cursor, g, a.space, d.history, d.echo)
      BY <2>3, <2>6, <2>7, <2>11, Zenon DEF Offer, T
    <2>13. Row(b, o, d.col, d.echo)
      BY <1>3, <1>6, <2>8, Zenon DEF Row, T
    <2>14. Keys(b, r)
      BY <1>3, <2>10, KeysSame, Zenon
    <2>15. Good(b, r)
      BY <1>3, <2>10, <2>12, <2>13, <2>14, Zenon DEF Good, SameText, SamePast, SameKeys
    <2>16. Synced(r)
      BY <1>4, <1>5, <2>8, <2>10, Zenon DEF Synced, Showing, SameText, SameKeys
    <2> QED BY <1>0, <1>1, <1>8, <2>15, <2>16, Zenon DEF Live
  <1> QED BY <1>7, <1>8

----------------------------------------------------------------------------
(* The event editor: a byte of the terminal.                                *)

LEMMA MarkerIs ==
  Len(Editor!Marker) = 4 /\ Editor!Range(Editor!Marker) \subseteq {"ESC", "[", "201", "~"}
  <1> DEFINE S == {"ESC", "[", "201", "~"}
             m == Editor!Marker
  <1>1. m \in Seq(S) /\ Len(m) = 4
    BY DEF Editor!Marker
  <1> HIDE DEF m, S
  <1>2. Editor!Range(m) \subseteq S
    BY <1>1 DEF Editor!Range
  <1> QED BY <1>1, <1>2, Zenon DEF m, S

\* A byte that comes next is one the echo has.
LEMMA BytesSent ==
  ASSUME NEW b \in Builds, build = b, Good(b, e), NEW k \in Editor!Bytes
  PROVE  Sent(b, k, e.echo) /\ Sent(b, Editor!Pasted(e, k), e.echo)
  <1> DEFINE more == CASE e.escape = 1 -> {"["} \cup Editor!Finals
                       [] e.escape > 1 -> Editor!Numbers \cup Editor!Finals
                       [] OTHER -> IF e.match > 0 THEN Editor!Range(Editor!Marker) ELSE {}
             keys == Editor!InCSI \cup {"201"}
  <1>0. e.echo \in BOOLEAN /\ Keys(b, e)
    BY GoodIs, Zenon
  <1>1. k \in (IF e.echo THEN Editor!Visible ELSE {Editor!Secret}) \cup Editor!Control \cup more
    BY Zenon DEF Editor!Bytes
  <1>2. more \subseteq keys \cup Editor!Control
    <2>1. /\ {"["} \cup Editor!Finals \subseteq keys /\ Editor!Numbers \cup Editor!Finals \subseteq keys
          /\ {"ESC", "[", "201", "~"} \subseteq keys \cup Editor!Control
      BY DEF Editor!Finals, Editor!Numbers, Editor!InCSI, Editor!Control
    <2>2. e.escape = 0 \/ e.escape = 1 \/ e.escape > 1
      <3>1. e.escape \in 0 .. 3
        BY <1>0, Zenon DEF Keys
      <3> QED BY <3>1
    <2>3. CASE e.escape = 1
      <3>1. more = {"["} \cup Editor!Finals
        BY <2>3
      <3> QED BY <2>1, <3>1, Zenon
    <2>4. CASE e.escape > 1
      <3>1. more = Editor!Numbers \cup Editor!Finals
        BY <2>4
      <3> QED BY <2>1, <3>1, Zenon
    <2>5. CASE e.escape = 0
      <3>1. more = IF e.match > 0 THEN Editor!Range(Editor!Marker) ELSE {}
        BY <2>5
      <3> QED BY <2>1, <3>1, MarkerIs, Zenon
    <2> QED BY <2>2, <2>3, <2>4, <2>5, Zenon
  <1> HIDE DEF more
  <1>3. Editor!Visible = b.visible /\ keys \subseteq Typeable(b)
    BY Zenon DEF Editor!Visible, Typeable
  <1>4. Typeable(b) \subseteq Held(b, e.echo) /\ Editor!Space \in Typeable(b) /\ b.visible \subseteq Typeable(b)
    BY <1>0, HeldIs, Zenon DEF Typeable
  <1> HIDE DEF keys
  <1>5. Sent(b, k, e.echo)
    <2>1. CASE k \in Editor!Control
      BY <2>1, Unprinted, Zenon DEF Sent
    <2>2. CASE k \in keys
      BY <1>3, <1>4, <2>2, Zenon DEF Sent
    <2>3. CASE k \in IF e.echo THEN Editor!Visible ELSE {Editor!Secret}
      <3>1. k \in Held(b, e.echo)
        BY <1>3, <1>4, <2>3, Zenon DEF Held
      <3> QED BY <3>1, Zenon DEF Sent
    <2> QED BY <1>1, <1>2, <2>1, <2>2, <2>3, Zenon
  <1>6. Sent(b, Editor!Space, e.echo)
    BY <1>4, Zenon DEF Sent
  <1> QED BY <1>5, <1>6, Zenon DEF Editor!Pasted

\* ps_editor_feed.
LEMMA FeedKeeps ==
  ASSUME NEW b \in Builds, build = b, Live(b, e), NEW k \in Editor!Bytes, Editor!Feed(k)
  PROVE  Good(b, e') /\ build' = build /\ (Synced(e') \/ event' \in {"submit", "tooLong"})
  <1> DEFINE pasting1 == e.paste /\ Editor!Matches(e, k)
             pasting2 == e.paste /\ ~Editor!Matches(e, k)
             undo == ~e.paste /\ Editor!UndoKey(e, k)
             d == [e EXCEPT !.match = IF k = "ESC" THEN 1 ELSE 0]
             p == Editor!Pasted(d, k)
             on == [e EXCEPT !.match = @ + 1]
             off == [e EXCEPT !.paste = FALSE, !.match = 0]
  <1>0. build' = build
    BY DEF Editor!Feed
  <1>1. Good(b, e) /\ Synced(e) /\ Shape(e) /\ Keys(b, e) /\ e.match \in 0 .. 3
    BY GoodIs, Zenon DEF Live, Keys
  <1>2. Sent(b, k, e.echo) /\ Sent(b, p, e.echo)
    <2>1. Sent(b, k, e.echo) /\ Sent(b, Editor!Pasted(e, k), e.echo)
      BY <1>1, BytesSent, Zenon
    <2> QED BY <2>1, Zenon DEF Editor!Pasted
  <1>3. /\ pasting1 => e' = (IF e.match + 1 < Len(Editor!Marker) THEN on ELSE Editor!Recorded(off)) /\ event' = "none"
        /\ pasting2 => IF p \in Editor!Control THEN e' = d /\ event' = "none"
                       ELSE e' = Editor!Typed(d, p) /\ event' = Editor!Asks(d, p)
        /\ undo => e' = Editor!UndoStep(e, IF k = "_" THEN 1 ELSE -1) /\ event' = "none"
        /\ ~pasting1 /\ ~pasting2 /\ ~undo => e' = Editor!Typed(e, k) /\ event' = Editor!Asks(e, k)
    BY Zenon DEF Editor!Feed
  <1>4. Live(b, d) /\ d.echo = e.echo
    <2>1. /\ Shape(d) /\ SameText(d, e) /\ SameOffer(d, e) /\ SamePast(d, e)
          /\ d.shown = e.shown /\ d.col = e.col /\ d.echo = e.echo /\ d.ansi = e.ansi
          /\ d.escape = e.escape /\ d.number = e.number /\ d.paste = e.paste /\ d.match \in {0, 1}
          /\ d.overflow = e.overflow /\ d.cr = e.cr
      BY <1>1 DEF Shape, SameText, SameOffer, SamePast
    <2> HIDE DEF d
    <2>2. d.match \in 0 .. 3
      BY <2>1
    <2>3. Keys(b, d)
      BY <1>1, <2>1, <2>2, Zenon DEF Keys
    <2> QED BY <1>1, <2>1, <2>3, KeyKeeps, Zenon DEF Live
  <1> HIDE DEF pasting2, undo, d, p
  <1>5. CASE pasting1
    <2>1. CASE e.match + 1 < Len(Editor!Marker)
      <3>0. e' = on
        BY <1>3, <1>5, <2>1, Zenon
      <3>1. /\ Shape(on) /\ SameText(on, e) /\ SameOffer(on, e) /\ SamePast(on, e)
            /\ on.shown = e.shown /\ on.col = e.col /\ on.echo = e.echo /\ on.ansi = e.ansi
            /\ on.escape = e.escape /\ on.number = e.number /\ on.paste = e.paste /\ on.match = e.match + 1
            /\ on.overflow = e.overflow /\ on.cr = e.cr
        BY <1>1 DEF Shape, SameText, SameOffer, SamePast
      <3>2. e.match + 1 \in 0 .. 3
        <4> DEFINE n == Len(Editor!Marker)
        <4>1. n = 4 /\ e.match + 1 < n
          BY <2>1, MarkerIs, Zenon
        <4> HIDE DEF n
        <4> QED BY <1>1, <4>1
      <3> HIDE DEF on
      <3>3. Keys(b, on)
        BY <1>1, <3>1, <3>2, Zenon DEF Keys
      <3> QED BY <1>0, <1>1, <3>0, <3>1, <3>3, KeyKeeps, Zenon
    <2>2. CASE ~(e.match + 1 < Len(Editor!Marker))
      <3>0. e' = Editor!Recorded(off)
        BY <1>3, <1>5, <2>2, Zenon
      <3>1. /\ Shape(off) /\ SameText(off, e) /\ SameOffer(off, e) /\ SamePast(off, e)
            /\ off.shown = e.shown /\ off.col = e.col /\ off.echo = e.echo /\ off.ansi = e.ansi
            /\ off.escape = e.escape /\ off.number = e.number /\ off.paste = FALSE /\ off.match = 0
            /\ off.overflow = e.overflow /\ off.cr = e.cr
        BY <1>1 DEF Shape, SameText, SameOffer, SamePast
      <3>2. 0 \in 0 .. 3
        OBVIOUS
      <3> HIDE DEF off
      <3>3. Keys(b, off)
        <4>1. off.paste \in BOOLEAN
          BY <3>1, Zenon
        <4> QED BY <1>1, <3>1, <3>2, <4>1, Zenon DEF Keys
      <3>4. Good(b, off) /\ Synced(off)
        BY <1>1, <3>1, <3>3, KeyKeeps, Zenon
      <3> QED BY <1>0, <3>0, <3>4, RecordedKeeps, Zenon
    <2> QED BY <2>1, <2>2
  <1> HIDE DEF pasting1, on, off
  <1>6. CASE pasting2
    <2>1. CASE p \in Editor!Control
      BY <1>0, <1>3, <1>4, <1>6, <2>1, Zenon DEF Live
    <2>2. CASE p \notin Editor!Control
      <3>1. Good(b, Editor!Typed(d, p)) /\ (Synced(Editor!Typed(d, p)) \/ Editor!Asks(d, p) \in {"submit", "tooLong"})
        BY <1>2, <1>4, TypedKeeps, Zenon
      <3> QED BY <1>0, <1>3, <1>6, <2>2, <3>1, Zenon
    <2> QED BY <2>1, <2>2
  <1>7. CASE undo
    <2>1. b.slots # 0
      <3>1. b.slots \in Nat /\ b.slots > 0
        BY <1>7, BuildIs, Zenon DEF undo, Editor!UndoKey
      <3> QED BY <3>1
    <2>2. (IF k = "_" THEN 1 ELSE -1) \in {-1, 1}
      OBVIOUS
    <2>3. Live(b, Editor!UndoStep(e, IF k = "_" THEN 1 ELSE -1))
      BY <2>1, <2>2, UndoStepKeeps, Zenon
    <2> QED BY <1>0, <1>3, <1>7, <2>3, Zenon DEF Live
  <1>8. CASE ~pasting1 /\ ~pasting2 /\ ~undo
    <2>1. Good(b, Editor!Typed(e, k)) /\ (Synced(Editor!Typed(e, k)) \/ Editor!Asks(e, k) \in {"submit", "tooLong"})
      BY <1>2, TypedKeeps, Zenon
    <2> QED BY <1>0, <1>3, <1>8, <2>1, Zenon
  <1> QED BY <1>5, <1>6, <1>7, <1>8, Zenon

\* What the program is asked.
Events == {"none", "tooLong", "submit", "cancel", "complete", "close"}
LEMMA FeedAsks == ASSUME NEW k, Editor!Feed(k) PROVE event' \in Events
  <1>1. \A d, p : Editor!Asks(d, p) \in Events
    BY Zenon DEF Editor!Asks, Events
  <1> QED BY <1>1, Zenon DEF Editor!Feed, Events

----------------------------------------------------------------------------
(* The event editor: whatever the terminal sends and the program answers.   *)

\* An editor either keeps a journal or is offered suggestions.
EitherOr == \A b \in Builds : b.slots = 0 \/ ~b.offers

\* While a line waits to be taken the row is already a new one.
EditorGood ==
  /\ build \in Builds /\ Good(build, e) /\ event \in Events
  /\ event \notin {"submit", "tooLong"} => Synced(e)

LEMMA FreshKeeps == ASSUME NEW b \in Builds, NEW r, IsFresh(r, b.ansi) PROVE Live(b, r)
  <1> DEFINE S == Seq(Typeable(b))
  <1>1. b.limit \in Nat
    BY BuildIs, Zenon
  <1> HIDE DEF S
  <1>2. <<>> \in Seq(S) /\ Len(<<>>) = 0 /\ Len(<<>>) <= b.limit /\ 0 \in 0 .. Len(<<>>)
        /\ \A i \in 1 .. Len(<<>>) : FALSE
    BY <1>1
  <1>3. Past(b, <<>>, 0)
    BY <1>2, Zenon DEF Past, S
  <1>4. 0 \in 0 .. 3 /\ 0 # 3 /\ TRUE \in BOOLEAN /\ FALSE \in BOOLEAN
    OBVIOUS
  <1>5. Keys(b, r)
    BY <1>4, Zenon DEF IsFresh, Keys
  <1> QED BY <1>3, <1>5, BlankKeeps, Zenon DEF IsFresh

LEMMA AnswerKeeps ==
  ASSUME NEW b \in Builds, build = b, Good(b, e), Editor!Submit \/ Editor!Discard \/ Editor!Close
  PROVE  Live(b, e') /\ build' = build /\ event' = "none"
  <1>1. CASE Editor!Submit
    <2>1. PICK echo \in BOOLEAN :
            Editor!Answered([Editor!Cleared(Editor!Remember(e, e.line \in Admitted)) EXCEPT !.echo = echo])
      BY <1>1, Zenon DEF Editor!Submit
    <2> DEFINE m == Editor!Remember(e, e.line \in Admitted)
    <2>2. Keys(b, m) /\ Past(b, m.history, m.offset)
      BY RememberKeeps, Zenon
    <2> HIDE DEF m
    <2>3. Live(b, Editor!NewRow([Editor!Cleared(m) EXCEPT !.echo = echo]))
      BY <2>2, ClearedKeeps, Zenon
    <2>4. Editor!Answered([Editor!Cleared(m) EXCEPT !.echo = echo])
      BY <2>1, Zenon DEF m
    <2>5. e' = Editor!NewRow([Editor!Cleared(m) EXCEPT !.echo = echo]) /\ event' = "none" /\ build' = build
      BY <2>4 DEF Editor!Answered
    <2> QED BY <2>3, <2>5, Zenon
  <1>2. CASE Editor!Discard
    <2>1. e' = Editor!NewRow(Editor!Cleared(e)) /\ event' = "none" /\ build' = build
      BY <1>2 DEF Editor!Discard, Editor!Answered
    <2>2. Keys(b, e) /\ Past(b, e.history, e.offset) /\ e.echo \in BOOLEAN
      BY GoodIs, Zenon
    <2> QED BY <2>1, <2>2, ClearedKeeps, Zenon
  <1>3. CASE Editor!Close
    <2> DEFINE f == Editor!Fresh(b.ansi)
    <2>1. e' = Editor!NewRow(f) /\ event' = "none" /\ build' = build
      BY <1>3 DEF Editor!Close, Editor!Answered
    <2>2. IsFresh(f, b.ansi)
      BY FreshIs, Zenon
    <2> HIDE DEF f
    <2> DEFINE r == Editor!NewRow(f)
    <2>3. IsFresh(r, b.ansi)
      BY <2>2 DEF Editor!NewRow, IsFresh, Shape
    <2> HIDE DEF r
    <2>4. Live(b, r)
      BY <2>3, FreshKeeps, Zenon
    <2> QED BY <2>1, <2>4, Zenon DEF r
  <1> QED BY <1>1, <1>2, <1>3

\* Drawing the row again, under another label or below a notice.
LEMMA DrawKeeps ==
  ASSUME NEW b \in Builds, build = b, Good(b, e), Editor!Refresh \/ Editor!Notice
  PROVE  Live(b, e') /\ build' = build /\ event' = event
  <1>1. build' = build /\ event' = event
    BY DEF Editor!Refresh, Editor!Notice
  <1>2. e' = Editor!Redraw(e) \/ e' = Editor!Redraw(Editor!NewRow(e))
    BY Zenon DEF Editor!Refresh, Editor!Notice
  <1> QED BY <1>1, <1>2, RedrawKeeps, NewRowKeeps, Zenon

LEMMA EditorStep == ASSUME EitherOr, EditorGood, Editor!EditorNext PROVE EditorGood'
  <1>1. PICK b \in Builds : build = b /\ Good(b, e) /\ (event \notin {"submit", "tooLong"} => Live(b, e))
    BY Zenon DEF EditorGood, Live
  <1>2. ASSUME Good(b, e'), build' = build, event' \in Events, event' \notin {"submit", "tooLong"} => Synced(e')
        PROVE  EditorGood'
    BY <1>1, <1>2, Zenon DEF EditorGood
  <1>3. "none" \in Events /\ "none" \notin {"submit", "tooLong"} /\ "complete" \notin {"submit", "tooLong"}
    BY DEF Events
  <1>4. ASSUME NEW k \in Editor!Bytes, Editor!Feed(k) PROVE EditorGood'
    <2>1. event = "none"
      BY <1>4, Zenon DEF Editor!Feed
    <2>2. Live(b, e)
      BY <1>1, <1>3, <2>1, Zenon
    <2>3. Good(b, e') /\ build' = build /\ (Synced(e') \/ event' \in {"submit", "tooLong"})
      BY <1>1, <1>4, <2>2, FeedKeeps, Zenon
    <2>4. event' \in Events
      BY <1>4, FeedAsks, Zenon
    <2> QED BY <1>2, <2>3, <2>4, Zenon
  <1>5. CASE Editor!Suggest
    <2>1. event = "none"
      BY <1>5, Zenon DEF Editor!Suggest
    <2>2. Live(b, e) /\ (b.slots = 0 \/ ~b.offers)
      BY <1>1, <1>3, <2>1, Zenon DEF EitherOr
    <2>3. Live(b, e') /\ build' = build /\ event' = event
      BY <1>1, <1>5, <2>2, SuggestKeeps, Zenon
    <2> QED BY <1>2, <1>3, <2>1, <2>3, Zenon DEF Live
  <1>6. CASE Editor!Complete
    <2>1. event = "complete"
      BY <1>6, Zenon DEF Editor!Complete
    <2>2. Live(b, e)
      BY <1>1, <1>3, <2>1, Zenon
    <2>3. Live(b, e') /\ build' = build /\ event' = "none"
      BY <1>1, <1>6, <2>2, CompleteKeeps, Zenon
    <2> QED BY <1>2, <1>3, <2>3, Zenon DEF Live
  <1>7. CASE Editor!Submit \/ Editor!Discard \/ Editor!Close
    <2>1. Live(b, e') /\ build' = build /\ event' = "none"
      BY <1>1, <1>7, AnswerKeeps, Zenon
    <2> QED BY <1>2, <1>3, <2>1, Zenon DEF Live
  <1>8. CASE Editor!Refresh \/ Editor!Notice
    <2>1. event = "none"
      BY <1>8, Zenon DEF Editor!Refresh, Editor!Notice
    <2>2. Live(b, e') /\ build' = build /\ event' = event
      BY <1>1, <1>8, DrawKeeps, Zenon
    <2> QED BY <1>2, <1>3, <2>1, <2>2, Zenon DEF Live
  <1> QED BY <1>4, <1>5, <1>6, <1>7, <1>8, Zenon DEF Editor!EditorNext

LEMMA EditorStart == Editor!EditorInit => EditorGood
  <1> SUFFICES ASSUME Editor!EditorInit PROVE EditorGood
    OBVIOUS
  <1>1. PICK b \in Builds : build = b /\ e = Editor!Fresh(b.ansi) /\ event = "none"
    BY Zenon DEF Editor!EditorInit
  <1>2. Live(b, e)
    BY <1>1, FreshIs, FreshKeeps, Zenon
  <1> QED BY <1>1, <1>2, Zenon DEF EditorGood, Live, Events

----------------------------------------------------------------------------
(* The event editor: what its invariant says.                               *)

\* A line that fits the buffer.
LEMMA LineFits ==
  ASSUME NEW b, NEW echo, NEW l \in Seq(Held(b, echo)), Len(l) <= b.capacity, b.capacity \in Nat, build = b,
         echo \in BOOLEAN
  PROVE  l \in Editor!EditorLine
  <1> DEFINE S == Editor!Visible \cup Editor!InCSI \cup {Editor!Space, "201", Editor!Secret}
             H == Held(b, echo)
             m == b.capacity
  <1>1. H \subseteq S
    BY Zenon DEF Held, Typeable, Editor!Visible
  <1>2. Editor!EditorLine = UNION {[1 .. n -> S] : n \in 0 .. m}
    BY Zenon DEF Editor!EditorLine
  <1> HIDE DEF S, H, m
  <1>3. l \in Seq(H) /\ Len(l) <= m /\ m \in Nat
    BY DEF H, m
  <1>4. Len(l) \in 0 .. m /\ l \in [1 .. Len(l) -> S]
    BY <1>1, <1>3
  <1> QED BY <1>2, <1>4, Zenon

\* No secret is among the characters of an echoed line.
LEMMA SecretApart ==
  ASSUME NEW b \in Builds, NEW l \in Seq(Typeable(b))
  PROVE  Editor!Secret \notin Editor!Range(l)
  <1> DEFINE T == Typeable(b)
  <1>1. Editor!Secret \notin b.visible
    BY EditorAssumption, Zenon
  <1>2. Editor!Secret \notin Editor!InCSI /\ Editor!Secret # "201"
    BY DEF Editor!InCSI, Editor!Numbers, Editor!Finals, Editor!Secret
  <1>3. Editor!Secret # Editor!Space
    BY Zenon DEF Editor!Secret, Editor!Space
  <1>4. Editor!Secret \notin T
    BY <1>1, <1>2, <1>3, Zenon DEF Typeable
  <1>5. l \in Seq(T)
    OBVIOUS
  <1> HIDE DEF T
  <1>6. Editor!Range(l) \subseteq T
    BY <1>5 DEF Editor!Range
  <1> QED BY <1>4, <1>6, Zenon

LEMMA EditorTyped == ASSUME EditorGood PROVE Editor!EditorTypeOK
  <1>1. PICK b \in Builds : build = b /\ Good(b, e)
    BY Zenon DEF EditorGood
  <1>2. /\ Sized(b, e.line, e.cursor, e.echo) /\ Sized(b, e.draft, e.draftCursor, e.echo)
        /\ Past(b, e.history, e.offset) /\ Offer(b, e.line, e.cursor, e.ghost, e.space, e.history, e.echo)
        /\ Steps(b, e.journal, e.echo) /\ Keys(b, e) /\ e.echo \in BOOLEAN
        /\ b.capacity \in Nat /\ b.slots \in Nat
    BY <1>1, GoodIs, BuildIs, Zenon
  <1>3. e.line \in Editor!EditorLine /\ e.draft \in Editor!EditorLine
    BY <1>1, <1>2, LineFits, Zenon DEF Sized
  <1>4. \A l \in Editor!Range(e.history) : l \in Editor!EditorLine
    <2> DEFINE h == e.history
               T == Typeable(b)
               S == Seq(T)
               H == Held(b, e.echo)
    <2>1. h \in Seq(S) /\ \A i \in 1 .. Len(h) : Len(h[i]) <= b.capacity
      BY <1>2, Zenon DEF Past
    <2>2. \A l : l \in S => l \in Seq(H)
      BY <1>2, HeldIs, Zenon
    <2> HIDE DEF h, S, H
    <2>3. \A l \in Editor!Range(h) : \E i \in 1 .. Len(h) : l = h[i] /\ h[i] \in S
      BY <2>1 DEF Editor!Range
    <2>4. \A l \in Editor!Range(h) : l \in Seq(H) /\ Len(l) <= b.capacity
      BY <2>1, <2>2, <2>3, Zenon
    <2> QED BY <1>1, <1>2, <2>4, LineFits, Zenon DEF h, H
  <1>5. e.cursor \in 0 .. Len(e.line) /\ e.draftCursor \in 0 .. Len(e.draft) /\ e.offset \in 0 .. Len(e.history)
        /\ Len(e.history) <= b.limit
    BY <1>2, Zenon DEF Sized, Past
  <1>6. /\ Len(e.journal.frames) <= b.slots /\ e.journal.at \in 0 .. Len(e.journal.frames)
        /\ \A i \in 1 .. Len(e.journal.frames) :
             e.journal.frames[i].cursor \in 0 .. Len(e.journal.frames[i].line)
    <2> DEFINE j == e.journal
               F == Frames(b, e.echo)
    <2>1. \A f \in F : f.cursor \in 0 .. Len(f.line)
      BY Zenon DEF Frames
    <2>2. IF b.slots = 0 THEN j = [frames |-> <<>>, at |-> 0] ELSE IsJournal(j, F, b.slots)
      BY <1>2, Zenon DEF Steps, Editor!Empty
    <2> HIDE DEF F, j
    <2>3. CASE b.slots = 0
      <3>1. j.frames = <<>> /\ j.at = 0
        BY <2>2, <2>3
      <3>2. Len(<<>>) <= b.slots /\ 0 \in 0 .. Len(<<>>) /\ \A i \in 1 .. Len(<<>>) : FALSE
        BY <1>2
      <3> QED BY <3>1, <3>2, Zenon DEF j
    <2>4. CASE b.slots # 0
      <3>1. IsJournal(j, F, b.slots)
        BY <2>2, <2>4, Zenon
      <3>2. j.frames \in Seq(F) /\ j.at \in Nat /\ Len(j.frames) <= b.slots /\ j.at <= Len(j.frames)
        BY <3>1 DEF IsJournal
      <3>3. j.at \in 0 .. Len(j.frames) /\ \A i \in 1 .. Len(j.frames) : j.frames[i] \in F
        BY <3>2
      <3> QED BY <2>1, <3>2, <3>3, Zenon DEF j
    <2> QED BY <2>3, <2>4, Zenon
  <1>7. Len(e.line \o e.ghost) <= b.capacity
    <2> DEFINE H == Held(b, e.echo)
               l == e.line
               g == e.ghost
    <2>0. l \in Seq(H) /\ Len(l) <= b.capacity
      BY <1>2, Zenon DEF Sized
    <2>1. CASE g = <<>>
      <3> HIDE DEF H, l, g
      <3>1. l \o <<>> = l
        BY <2>0
      <3> QED BY <2>0, <2>1, <3>1, Zenon DEF l, g
    <2>2. CASE g # <<>>
      <3>1. Len(l) + Len(g) + (IF e.space THEN 1 ELSE 0) <= b.capacity /\ e.space \in BOOLEAN
        BY <1>1, <2>2, SuggestedIs, Zenon
      <3>2. g \in Seq(H)
        BY <1>2, HeldIs, Zenon DEF Offer
      <3> HIDE DEF H, l, g
      <3>3. Len(l \o g) = Len(l) + Len(g) /\ Len(l) \in Nat /\ Len(g) \in Nat
        BY <2>0, <3>2, Joined
      <3>4. Len(l) + Len(g) <= b.capacity
        BY <1>2, <3>1, <3>3
      <3> QED BY <3>3, <3>4, Zenon DEF l, g
    <2> QED BY <2>1, <2>2
  <1>8. e.match < Len(Editor!Marker)
    <2>1. e.match \in 0 .. 3 /\ Len(Editor!Marker) = 4
      BY <1>2, MarkerIs, Zenon DEF Keys
    <2> DEFINE n == Len(Editor!Marker)
    <2> HIDE DEF n
    <2>2. e.match \in 0 .. 3 /\ n = 4
      BY <2>1, Zenon DEF n
    <2>3. e.match < n
      BY <2>2
    <2> QED BY <2>3, Zenon DEF n
  <1>9. {e.line, e.draft} \cup Editor!Range(e.history) \subseteq Editor!EditorLine
    BY <1>3, <1>4, Zenon
  <1> QED BY <1>1, <1>5, <1>6, <1>7, <1>8, <1>9, Zenon DEF Editor!EditorTypeOK

LEMMA EditorSuggests == ASSUME EditorGood PROVE Editor!SuggestionIsATail
  <1>1. PICK b \in Builds : Good(b, e)
    BY Zenon DEF EditorGood
  <1> QED BY <1>1, SuggestedIs, Zenon DEF Editor!SuggestionIsATail

LEMMA EditorRow == ASSUME EditorGood PROVE Editor!RowShowsLine
  <1> SUFFICES ASSUME e.echo, event = "none"
               PROVE  e.col = e.cursor /\ IF e.ansi THEN e.shown = e.line \o e.ghost ELSE Editor!IsPrefix(e.line, e.shown)
    BY Zenon DEF Editor!RowShowsLine
  <1>1. PICK b \in Builds : Good(b, e) /\ Synced(e)
    <2>1. event \notin {"submit", "tooLong"}
      OBVIOUS
    <2> QED BY <2>1, Zenon DEF EditorGood
  <1>2. e.col = e.cursor /\ IF e.ansi THEN e.shown = e.line \o e.ghost ELSE Begins(e.line, e.shown)
    BY <1>1, Zenon DEF Synced, Showing
  <1>3. Editor!IsPrefix(e.line, e.shown) <=> Begins(e.line, e.shown)
    BY <1>1, Echoed, PrefixIs, Zenon
  <1> QED BY <1>2, <1>3, Zenon

LEMMA EditorHides == ASSUME EditorGood PROVE Editor!SecretStaysHidden
  <1>1. PICK b \in Builds : Good(b, e)
    BY Zenon DEF EditorGood
  <1>2. /\ Past(b, e.history, e.offset) /\ Offer(b, e.line, e.cursor, e.ghost, e.space, e.history, e.echo)
        /\ Row(b, e.shown, e.col, e.echo) /\ Steps(b, e.journal, e.echo)
        /\ Sized(b, e.line, e.cursor, e.echo) /\ Sized(b, e.draft, e.draftCursor, e.echo) /\ e.echo \in BOOLEAN
    BY <1>1, GoodIs, Zenon
  <1>3. ~e.echo => e.shown = <<>> /\ e.ghost = <<>>
    BY <1>1, <1>2, SuggestedIs, Zenon DEF Row
  <1>4. ASSUME NEW x \in {e.shown, e.ghost} \cup Editor!Range(e.history) PROVE Editor!Secret \notin Editor!Range(x)
    <2>1. x \in Seq(Typeable(b))
      BY <1>2, <1>4, PastAre, Zenon DEF Row, Offer
    <2> QED BY <2>1, SecretApart, Zenon
  <1>5. ASSUME e.echo, NEW x \in {e.line, e.draft} \cup {f.line : f \in Editor!Range(e.journal.frames)}
        PROVE  Editor!Secret \notin Editor!Range(x)
    <2>1. Held(b, e.echo) = Typeable(b)
      BY <1>5, Zenon DEF Held
    <2>2. CASE x \in {e.line, e.draft}
      BY <1>2, <2>1, <2>2, SecretApart, Zenon DEF Sized
    <2>3. CASE x \in {f.line : f \in Editor!Range(e.journal.frames)}
      <3> DEFINE j == e.journal
                 F == Frames(b, e.echo)
                 S == Seq(Held(b, e.echo))
      <3>1. PICK f \in Editor!Range(j.frames) : x = f.line
        BY <2>3, Zenon
      <3>2. \A k \in F : k.line \in S
        <4>1. \A k \in F : k \in [line : S, cursor : Nat]
          BY Zenon DEF Frames
        <4> HIDE DEF F, S
        <4> QED BY <4>1
      <3>3. IF b.slots = 0 THEN j = [frames |-> <<>>, at |-> 0] ELSE IsJournal(j, F, b.slots)
        BY <1>2, Zenon DEF Steps, Editor!Empty
      <3> HIDE DEF F, j, S
      <3>4. f \in F
        <4>1. j.frames \in Seq(F)
          <5>1. CASE b.slots = 0
            <6>1. j = [frames |-> <<>>, at |-> 0] /\ <<>> \in Seq(F)
              BY <3>3, <5>1
            <6>2. j.frames = <<>>
              BY <6>1
            <6> QED BY <6>1, <6>2, Zenon
          <5>2. CASE b.slots # 0
            BY <3>3, <5>2 DEF IsJournal
          <5> QED BY <5>1, <5>2
        <4> QED BY <4>1 DEF Editor!Range
      <3>5. x \in S
        BY <3>1, <3>2, <3>4, Zenon
      <3>6. x \in Seq(Typeable(b))
        BY <2>1, <3>5, Zenon DEF S
      <3> QED BY <3>6, SecretApart, Zenon
    <2> QED BY <1>5, <2>2, <2>3, Zenon
  <1> QED BY <1>3, <1>4, <1>5, Zenon DEF Editor!SecretStaysHidden

----------------------------------------------------------------------------
(* The parts together.                                                      *)

LEMMA UndoTyped == UndoGood => Undo!TypeOK
  <1> SUFFICES ASSUME UndoGood PROVE Undo!TypeOK
    OBVIOUS
  <1>1. text \in Undo!Lines /\ kept \in Undo!Lines /\ before \in Undo!Lines /\ cursor \in 0 .. Len(text)
    BY UndoLine DEF UndoGood, IsUndoFrame, IsUndoLine
  <1>2. journal.frames \in Seq(Undo!Frame) /\ Len(journal.frames) <= Slots /\ journal.at \in 0 .. Len(journal.frames)
    <2>1. IsJournal(journal, UndoFrames, Slots)
      BY DEF UndoGood, IsUndoJournal
    <2> DEFINE F == UndoFrames
               G == Undo!Frame
    <2>2. F \subseteq G
      BY DEF UndoFrames
    <2> HIDE DEF F, G
    <2>3. journal.frames \in Seq(F) /\ journal.at \in Nat /\ Len(journal.frames) <= Slots /\ journal.at <= Len(journal.frames)
      BY <2>1 DEF IsJournal, F
    <2> QED BY <2>2, <2>3 DEF G
  <1> QED BY <1>1, <1>2, Zenon DEF UndoGood, Undo!TypeOK

\* What holds of the part of a behaviour.
LineGood ==
  /\ part \in {"history", "queue", "undo", "prompt", "editor"}
  /\ part = "history" => TypeOK
  /\ part = "queue" => Queue!TypeOK
  /\ part = "undo" => UndoGood
  /\ part = "prompt" => PromptTypes
  /\ part = "editor" => EditorGood

LEMMA LineGoodInit == LineInit => LineGood
  <1> SUFFICES ASSUME LineInit PROVE LineGood
    OBVIOUS
  <1>1. part \in {"history", "queue", "undo", "prompt", "editor"}
    BY PartsAssumption, Zenon DEF LineInit
  <1>2. part = "history" => TypeOK
    BY TypeInit, Zenon DEF LineInit
  <1>3. ASSUME part = "queue" PROVE Queue!TypeOK
    BY <1>3, LineAssumption DEF LineInit, Queue!Init, Queue!TypeOK, Queue!Places, Queue!NoByte
  <1>4. ASSUME part = "undo" PROVE UndoGood
    <2>1. Undo!Init
      BY <1>4, Zenon DEF LineInit
    <2> QED BY <2>1, EmptyIs DEF Undo!Init, UndoGood, IsUndoFrame
  <1>5. part = "prompt" => PromptTypes
    BY PromptTypesInit, Zenon DEF LineInit
  <1>6. part = "editor" => EditorGood
    BY EditorStart, Zenon DEF LineInit
  <1> QED BY <1>1, <1>2, <1>3, <1>4, <1>5, <1>6, Zenon DEF LineGood

LEMMA QuietTypes == ASSUME PromptTypes, UNCHANGED promptVars PROVE PromptTypes'
  BY DEF promptVars, PromptTypes, PromptEdit, PromptPast, PromptMode, PromptOffer, IsCycle, Prompt!SuggestionContinues

LEMMA LineGoodStep == ASSUME EitherOr, LineGood, [LineNext]_lineVars PROVE LineGood'
  <1>1. part' = part /\ part \in {"history", "queue", "undo", "prompt", "editor"}
    BY DEF LineNext, lineVars, LineGood
  <1>2. ASSUME part = "history" PROVE TypeOK'
    <2>1. TypeOK /\ [Next]_vars
      BY <1>2 DEF LineGood, LineNext, lineVars
    <2> QED BY <2>1, TypeStep, Zenon
  <1>3. ASSUME part = "queue" PROVE Queue!TypeOK'
    <2>1. Queue!TypeOK /\ (Queue!Next \/ UNCHANGED queueVars)
      BY <1>3 DEF LineGood, LineNext, lineVars
    <2>2. UNCHANGED queueVars => Queue!TypeOK'
      BY <2>1 DEF queueVars, Queue!TypeOK, Queue!Places
    <2> QED BY <2>1, <2>2, QueueTyped
  <1>4. ASSUME part = "undo" PROVE UndoGood'
    <2>1. UndoGood /\ (Undo!Next \/ UNCHANGED undoVars)
      BY <1>4 DEF LineGood, LineNext, lineVars
    <2>2. UNCHANGED undoVars => UndoGood'
      BY <2>1 DEF undoVars, UndoGood
    <2> QED BY <2>1, <2>2, UndoActions
  <1>5. ASSUME part = "prompt" PROVE PromptTypes'
    <2>1. PromptTypes /\ (Prompt!Next \/ UNCHANGED promptVars)
      BY <1>5 DEF LineGood, LineNext, lineVars
    <2>2. UNCHANGED promptVars => PromptTypes'
      BY <2>1, QuietTypes
    <2> QED BY <2>1, <2>2, PromptTypesStep
  <1>6. ASSUME part = "editor" PROVE EditorGood'
    <2>1. EditorGood /\ (Editor!EditorNext \/ UNCHANGED editorVars)
      BY <1>6 DEF LineGood, LineNext, lineVars
    <2>2. ASSUME UNCHANGED editorVars PROVE EditorGood'
      <3>1. e' = e /\ build' = build /\ event' = event
        BY <2>2 DEF editorVars
      <3> QED BY <2>1, <3>1, Zenon DEF EditorGood
    <2> QED BY <2>1, <2>2, EditorStep
  <1> QED BY <1>1, <1>2, <1>3, <1>4, <1>5, <1>6, Zenon DEF LineGood

LEMMA LineGoodInvariance == ASSUME EitherOr PROVE LineSpec => []LineGood
  <1>1. LineGood /\ [LineNext]_lineVars => LineGood'
    BY LineGoodStep
  <1> QED BY <1>1, LineGoodInit, PTL DEF LineSpec

\* The history, the queue, the journal, the prompt and the editor keep their types,
\* whatever is typed, pasted, recalled, completed or undone: cursors stay inside their
\* lines, lines inside their buffers and the recalled lines and snapshots, too.
THEOREM LineTyped == ASSUME EitherOr PROVE LineSpec => []LineTypeOK
  <1>1. LineGood => LineTypeOK
    <2> SUFFICES ASSUME LineGood PROVE LineTypeOK
      OBVIOUS
    <2>1. part \in {"history", "queue", "undo", "prompt", "editor"}
      BY DEF LineGood
    <2>2. CASE part = "history"
      BY <2>2 DEF LineGood, LineTypeOK
    <2>3. CASE part = "queue"
      BY <2>3 DEF LineGood, LineTypeOK
    <2>4. CASE part = "undo"
      BY <2>4, UndoTyped DEF LineGood, LineTypeOK
    <2>5. CASE part = "prompt"
      BY <2>5, PromptTyped DEF LineGood, LineTypeOK
    <2>6. CASE part = "editor"
      BY <2>6, EditorTyped DEF LineGood, LineTypeOK
    <2> QED BY <2>1, <2>2, <2>3, <2>4, <2>5, <2>6
  <1> QED BY <1>1, LineGoodInvariance, PTL

\* What is drawn after the line continues it, in the prompt and in the editor, where the
\* two together are a line of the history or a command: ps_editor_suggest.
THEOREM SuggestionsContinue == ASSUME EitherOr PROVE LineSpec => []SuggestionsHold
  <1>1. LineGood => SuggestionsHold
    BY EditorSuggests DEF LineGood, SuggestionsHold, PromptTypes, PromptOffer
  <1> QED BY <1>1, LineGoodInvariance, PTL

\* Whenever the editor takes keys, the row shows the line a submission would send, with the
\* terminal's cursor at the editor's; and what was typed with the echo off is in no row, no
\* suggestion, no recalled line and no snapshot: ps_editor_redraw, ps_editor_fix_cursor.
THEOREM EditorShowsTheLine == ASSUME EitherOr PROVE LineSpec => []EditorShows
  <1>1. LineGood => EditorShows
    BY EditorRow, EditorHides DEF LineGood, EditorShows
  <1> QED BY <1>1, LineGoodInvariance, PTL

----------------------------------------------------------------------------
(* The event editor: a paste.                                               *)

Sets == INSTANCE FiniteSetTheorems
Count(S) == Editor!Cardinality(S)

\* The numbers up to n, without one of them.
LEMMA CountTo ==
  ASSUME NEW n \in Nat
  PROVE  Count(1 .. n) = n /\ \A c \in 1 .. n : Count((1 .. n) \ {c}) = n - 1
  <1>1. Sets!IsFiniteSet(1 .. n) /\ Sets!Cardinality(1 .. n) = n
    <2>1. Sets!IsFiniteSet(1 .. n) /\ Sets!Cardinality(1 .. n) = IF 1 > n THEN 0 ELSE n - 1 + 1
      BY Sets!FS_Interval
    <2> QED BY <2>1
  <1>2. \A S : Count(S) = Sets!Cardinality(S)
    BY Zenon DEF Count, Editor!Cardinality, Sets!Cardinality
  <1>3. ASSUME NEW c \in 1 .. n PROVE Sets!Cardinality((1 .. n) \ {c}) = n - 1
    BY <1>1, Sets!FS_RemoveElement
  <1> QED BY <1>1, <1>2, <1>3, Zenon

\* A line is among the characters of itself, and of itself with one more.
LEMMA SubsequenceSame == ASSUME NEW T, NEW l \in Seq(T) PROVE Editor!Subsequence(l, l)
  <1> DEFINE S == 1 .. Len(l)
  <1>0. Len(l) \in Nat
    OBVIOUS
  <1>1. Count(S) = Len(l)
    BY <1>0, CountTo
  <1>2. ASSUME NEW i \in S PROVE l[i] = l[Count({j \in S : j <= i})]
    <2>1. {j \in S : j <= i} = 1 .. i /\ i \in Nat
      BY <1>0
    <2>2. Count(1 .. i) = i
      BY <2>1, CountTo
    <2> QED BY <2>1, <2>2, Zenon
  <1> QED BY <1>1, <1>2, Zenon DEF Editor!Subsequence, Count

LEMMA SubsequencePut ==
  ASSUME NEW T, NEW l \in Seq(T), NEW c \in 0 .. Len(l), NEW x \in T
  PROVE  Editor!Subsequence(l, PutIn(l, c, x))
  <1> DEFINE y == PutIn(l, c, x)
             n == Len(l) + 1
             S == (1 .. n) \ {c + 1}
  <1>0. Len(l) \in Nat /\ n \in Nat /\ c \in Nat /\ c + 1 \in 1 .. n
    OBVIOUS
  <1>1. Len(y) = n /\ \A p \in 1 .. n : y[p] = IF p <= c THEN l[p] ELSE IF p = c + 1 THEN x ELSE l[p - 1]
    <2>1. c \in 0 .. Len(l)
      OBVIOUS
    <2>2. /\ PutIn(l, c, x) \in Seq(T) /\ Len(PutIn(l, c, x)) = Len(l) + 1
          /\ \A p \in 1 .. Len(l) + 1 : PutIn(l, c, x)[p] = IF p <= c THEN l[p] ELSE IF p = c + 1 THEN x ELSE l[p - 1]
      BY <2>1, PutAt, SMTT(60)
    <2> QED BY <2>2, Zenon
  <1> HIDE DEF y
  <1>2. Count(S) = Len(l)
    <2>1. n - 1 = Len(l)
      BY <1>0
    <2> HIDE DEF n
    <2> QED BY <1>0, <2>1, CountTo
  <1>3. ASSUME NEW i \in S PROVE y[i] = l[Count({j \in S : j <= i})]
    <2>1. CASE i <= c
      <3>1. {j \in S : j <= i} = 1 .. i /\ i \in Nat /\ i \in 1 .. n
        BY <1>0, <2>1
      <3>2. Count(1 .. i) = i
        BY <3>1, CountTo
      <3>3. y[i] = l[i]
        BY <1>1, <2>1, <3>1, Zenon
      <3> QED BY <3>1, <3>2, <3>3, Zenon
    <2>2. CASE ~(i <= c)
      <3>1. {j \in S : j <= i} = (1 .. i) \ {c + 1} /\ i \in Nat /\ i \in 1 .. n /\ c + 1 \in 1 .. i /\ i # c + 1
        BY <1>0, <2>2
      <3>2. Count((1 .. i) \ {c + 1}) = i - 1
        BY <3>1, CountTo
      <3>3. y[i] = l[i - 1]
        BY <1>1, <2>2, <3>1, Zenon
      <3> QED BY <3>1, <3>2, <3>3, Zenon
    <2> QED BY <2>1, <2>2
  <1>4. S \in SUBSET (1 .. Len(y))
    BY <1>1
  <1> HIDE DEF S
  <1> QED BY <1>2, <1>3, <1>4, Zenon DEF Editor!Subsequence, Count, y

\* ps_undo_record after another line: the snapshot before the new one is the one the
\* journal was at.
LEMMA RecordAfter ==
  ASSUME NEW F, NEW slots \in Nat, slots > 1, NEW j, IsJournal(j, F, slots), j.at >= 1,
         NEW l, NEW c, EndsWhole(l), j.frames[j.at].line # l
  PROVE  LET now == Record(j, l, c, slots) IN
         now.at - 1 \in 1 .. Len(now.frames) /\ now.frames[now.at - 1] = j.frames[j.at]
  <1> DEFINE f == [line |-> l, cursor |-> c]
             k == j.at
             done == SubSeq(j.frames, 1, k)
             was == IF k = slots THEN Tail(done) ELSE done
             now == Record(j, l, c, slots)
  <1>1. /\ j.frames \in Seq(F) /\ Len(j.frames) \in Nat
        /\ k \in 1 .. Len(j.frames) /\ k <= slots
    BY DEF IsJournal
  <1>2. now = [frames |-> Append(was, f), at |-> Len(was) + 1]
    <2>1. ~Stands(j, l)
      BY Zenon DEF Stands
    <2>2. now = Pushed(j, k, l, c, slots)
      BY <2>1, Zenon DEF Record
    <2> QED BY <2>2, Zenon DEF Pushed
  <1> HIDE DEF now
  <1>3. done \in Seq(F) /\ Len(done) = k /\ done[k] = j.frames[k]
    BY <1>1
  <1> HIDE DEF done
  <1>4. PICK n \in Nat : was \in Seq(F) /\ Len(was) = n /\ n >= 1 /\ was[n] = j.frames[k]
    <2>1. CASE k = slots
      <3>1. Tail(done) \in Seq(F) /\ Len(Tail(done)) = k - 1 /\ Tail(done)[k - 1] = done[k]
        BY <1>1, <1>3, <2>1
      <3>2. k - 1 \in Nat /\ k - 1 >= 1
        BY <1>1, <2>1
      <3> QED BY <1>3, <2>1, <3>1, <3>2
    <2>2. CASE k # slots
      BY <1>1, <1>3, <2>2
    <2> QED BY <2>1, <2>2
  <1> HIDE DEF was, k
  <1> DEFINE g == Append(was, f)
  <1>5. now.at = n + 1 /\ now.frames = g
    BY <1>2, <1>4
  <1>6. Len(g) = n + 1 /\ g[n] = was[n]
    BY <1>4
  <1> HIDE DEF g
  <1>7. now.at - 1 = n /\ n \in 1 .. Len(g)
    BY <1>4, <1>5, <1>6
  <1> QED BY <1>4, <1>5, <1>6, <1>7, Zenon DEF now, k


\* The same but for the row and the suggestion.
RowOnly(r, d) == Shape(r) /\ SameText(r, d) /\ SameKeys(r, d) /\ SamePast(r, d)
\* The same behind the line: a sequence or a paste that came so far, the history, the journal.
Behind(r, d) ==
  /\ Shape(r) /\ r.paste = d.paste /\ r.escape = d.escape /\ r.match = d.match
  /\ r.journal = d.journal /\ r.history = d.history

LEMMA BehindSelf == ASSUME NEW d, Shape(d) PROVE Behind(d, d) /\ RowOnly(d, d)
  BY Zenon DEF RowOnly, Behind, SameText, SameKeys, SamePast
LEMMA BehindRow == ASSUME NEW r, NEW d, RowOnly(r, d) PROVE Behind(r, d) /\ Shape(r)
  BY Zenon DEF RowOnly, Behind, SameKeys, SamePast
LEMMA BehindTwice == ASSUME NEW r, NEW q, NEW d, Behind(r, q), Behind(q, d) PROVE Behind(r, d)
  BY Zenon DEF Behind
LEMMA RowTwice == ASSUME NEW r, NEW q, NEW d, RowOnly(r, q), RowOnly(q, d) PROVE RowOnly(r, d)
  <1>1. SameText(r, d)
    BY DEF RowOnly, SameText
  <1>2. SameKeys(r, d)
    BY DEF RowOnly, SameKeys
  <1>3. SamePast(r, d)
    BY DEF RowOnly, SamePast
  <1> QED BY <1>1, <1>2, <1>3, Zenon DEF RowOnly

LEMMA RowsOnly ==
  ASSUME NEW d, Shape(d)
  PROVE  /\ \A x : RowOnly(Editor!Emit(d, x), d)
         /\ RowOnly(Editor!Redraw(d), d) /\ RowOnly(Editor!NewRow(d), d) /\ RowOnly(Editor!EraseGhost(d), d)
         /\ \A x : RowOnly(Editor!FixCursor(d, x), d)
  <1>1. ASSUME NEW x, NEW y PROVE RowOnly([d EXCEPT !.shown = x, !.col = y], d) /\ RowOnly([d EXCEPT !.shown = x], d)
    BY DEF Shape, RowOnly, SameText, SameKeys, SamePast
  <1>2. ASSUME NEW q, Shape(q) PROVE RowOnly([q EXCEPT !.ghost = <<>>, !.space = FALSE], q)
    BY <1>2 DEF Shape, RowOnly, SameText, SameKeys, SamePast
  <1>3. \A x : RowOnly(Editor!Emit(d, x), d)
    BY <1>1, Zenon DEF Editor!Emit
  <1>4. RowOnly(Editor!Redraw(d), d)
    BY <1>1, BehindSelf, BehindRow, BehindTwice, RowTwice, Zenon DEF Editor!Redraw
  <1>5. RowOnly(Editor!NewRow(d), d)
    BY <1>1, Zenon DEF Editor!NewRow
  <1>6. RowOnly(Editor!EraseGhost(d), d)
    <2>1. RowOnly(Editor!Erase(d), d)
      BY <1>1, Zenon DEF Editor!Erase
    <2> DEFINE q == IF d.echo /\ d.ansi THEN Editor!Erase(d) ELSE d
    <2>2. RowOnly(q, d)
      BY <2>1, BehindSelf, BehindRow, BehindTwice, RowTwice, Zenon
    <2>3. Editor!EraseGhost(d) = IF d.ghost = <<>> THEN d ELSE [q EXCEPT !.ghost = <<>>, !.space = FALSE]
      BY Zenon DEF Editor!EraseGhost
    <2> HIDE DEF q
    <2>4. RowOnly([q EXCEPT !.ghost = <<>>, !.space = FALSE], q)
      BY <1>2, <2>2, Zenon DEF RowOnly
    <2> QED BY <2>2, <2>3, <2>4, BehindSelf, BehindRow, BehindTwice, RowTwice, Zenon
  <1>7. \A x : RowOnly(Editor!FixCursor(d, x), d)
    BY <1>1, BehindSelf, BehindRow, BehindTwice, RowTwice, Zenon DEF Editor!FixCursor
  <1> QED BY <1>3, <1>4, <1>5, <1>6, <1>7, Zenon

\* The keys that move change the line, the cursor and the row.
LEMMA MovesBehind ==
  ASSUME NEW d, Shape(d), d.cursor \in Nat
  PROVE  /\ \A k : Behind(Editor!Goto(d, k), d)
         /\ \A older : Behind(Editor!Recall(d, older), d)
         /\ Behind(Editor!TakeGhost(d), d)
         /\ \A k : Behind(Editor!Move(d, k), d)
  <1>1. ASSUME NEW q, Shape(q), NEW k PROVE Behind(Editor!Goto(q, k), q)
    <2> DEFINE at1 == [q EXCEPT !.cursor = k]
               at2 == [at1 EXCEPT !.col = @ + k - q.cursor]
               at3 == Editor!Emit(at1, SubSeq(q.line, q.cursor + 1, k))
    <2>1. Behind(at1, q) /\ Shape(at1)
      BY <1>1 DEF Shape, Behind
    <2>2. Editor!Goto(q, k) = at1 \/ Editor!Goto(q, k) = at2 \/ Editor!Goto(q, k) = at3
      BY Zenon DEF Editor!Goto
    <2> HIDE DEF at1
    <2>3. Behind(at2, at1)
      BY <2>1 DEF Shape, Behind
    <2>4. Behind(at3, at1)
      BY <2>1, RowsOnly, BehindRow, Zenon
    <2> HIDE DEF at2, at3
    <2>5. Behind(at2, q) /\ Behind(at3, q)
      BY <2>1, <2>3, <2>4, BehindTwice, Zenon
    <2> QED BY <2>1, <2>2, <2>5, Zenon
  <1>2. ASSUME NEW q, Shape(q), NEW older PROVE Behind(Editor!Recall(q, older), q)
    <2> DEFINE to == IF older THEN q.offset + 1 ELSE q.offset - 1
               kept1 == CASE to = 0 -> [q EXCEPT !.draft = <<>>, !.draftCursor = 0]
                     [] to = 1 /\ older -> [q EXCEPT !.draft = q.line, !.draftCursor = q.cursor]
                     [] OTHER -> q
               a == IF to = 0 THEN q.draft ELSE q.history[to]
               c == IF to = 0 THEN q.draftCursor ELSE Len(q.history[to])
               n == [kept1 EXCEPT !.offset = to, !.line = a, !.cursor = c]
    <2>1. Editor!Recall(q, older) = IF ~q.echo \/ to \notin 0 .. Len(q.history) THEN q ELSE Editor!Redraw(n)
      BY Zenon DEF Editor!Recall
    <2>2. ASSUME NEW x, NEW y PROVE Behind([q EXCEPT !.draft = x, !.draftCursor = y], q)
      BY <1>2 DEF Shape, Behind
    <2>3. Behind(kept1, q)
      BY <1>2, <2>2, BehindSelf, Zenon
    <2> HIDE DEF kept1, a, c, to
    <2>4. Behind(n, kept1) /\ Shape(n)
      BY <2>3 DEF Shape, Behind
    <2> HIDE DEF n
    <2>5. Behind(Editor!Redraw(n), n)
      BY <2>4, RowsOnly, BehindRow, Zenon
    <2>6. Behind(n, q)
      BY <2>3, <2>4, BehindTwice, Zenon
    <2>7. Behind(Editor!Redraw(n), q)
      BY <2>5, <2>6, BehindTwice, Zenon
    <2> QED BY <1>2, <2>1, <2>7, BehindSelf, Zenon
  <1>3. Behind(Editor!TakeGhost(d), d)
    <2> DEFINE a == Editor!Accepted(d)
               m == Editor!Emit(d, d.ghost \o (IF d.space THEN <<Editor!Space>> ELSE <<>>))
               r == [m EXCEPT !.line = a, !.cursor = Len(a), !.ghost = <<>>, !.space = FALSE,
                              !.offset = 0, !.draft = <<>>, !.draftCursor = 0]
    <2>1. Editor!TakeGhost(d) = r
      BY Zenon DEF Editor!TakeGhost
    <2>2. Behind(m, d)
      BY RowsOnly, BehindRow, Zenon
    <2> HIDE DEF a, m
    <2>3. Behind(r, m)
      BY <2>2 DEF Shape, Behind
    <2> HIDE DEF r
    <2>4. Behind(r, d)
      BY <2>2, <2>3, BehindTwice, Zenon
    <2> QED BY <2>1, <2>4, Zenon
  <1>4. ASSUME NEW k PROVE Behind(Editor!Move(d, k), d)
    <2> DEFINE q == Editor!EraseGhost(d)
               r == Editor!Move(d, k)
    <2>1. Behind(q, d) /\ Shape(q)
      BY RowsOnly, BehindRow, Zenon
    <2>2. r = Editor!TakeGhost(d) \/ r = q \/ (\E i : r = Editor!Goto(q, i)) \/ (\E older : r = Editor!Recall(q, older))
      <3>0. d.cursor = Len(d.line) => ~(d.cursor < Len(d.line))
        OBVIOUS
      <3>1. CASE k \in {"C", "F"} /\ d.cursor = Len(d.line) /\ d.ghost # <<>>
        <4>1. r = Editor!TakeGhost(d)
          BY <3>0, <3>1, Zenon DEF Editor!Move
        <4> QED BY <4>1, Zenon
      <3>2. CASE ~(k \in {"C", "F"} /\ d.cursor = Len(d.line) /\ d.ghost # <<>>)
        <4>1. \/ r = q \/ r = Editor!Goto(q, d.cursor - 1) \/ r = Editor!Goto(q, d.cursor + 1)
              \/ r = Editor!Goto(q, 0) \/ r = Editor!Goto(q, Len(d.line)) \/ r = Editor!Recall(q, k = "A")
          <5>1. CASE k = "D"
            BY <3>2, <5>1, Zenon DEF Editor!Move
          <5>2. CASE k = "C"
            BY <3>2, <5>2, Zenon DEF Editor!Move
          <5>3. CASE k = "H"
            BY <3>2, <5>3, Zenon DEF Editor!Move
          <5>4. CASE k = "F"
            BY <3>2, <5>4, Zenon DEF Editor!Move
          <5>5. CASE k \in {"A", "B"}
            BY <3>2, <5>5, Zenon DEF Editor!Move
          <5>6. CASE k \notin {"A", "B", "C", "D", "F", "H"}
            BY <3>2, <5>6, Zenon DEF Editor!Move
          <5> QED BY <5>1, <5>2, <5>3, <5>4, <5>5, <5>6, Zenon
        <4> QED BY <4>1, Zenon
      <3> QED BY <3>1, <3>2, Zenon
    <2> HIDE DEF q, r
    <2>3. \A i : Behind(Editor!Goto(q, i), d)
      BY <1>1, <2>1, BehindTwice, Zenon
    <2>4. \A older : Behind(Editor!Recall(q, older), d)
      BY <1>2, <2>1, BehindTwice, Zenon
    <2>5. Behind(r, d)
      BY <1>3, <2>1, <2>2, <2>3, <2>4, Zenon
    <2> QED BY <2>5, Zenon DEF r
  <1> QED BY <1>1, <1>2, <1>3, <1>4, Zenon

\* So do the keys that take characters out.
LEMMA CutsBehind ==
  ASSUME NEW d, Shape(d)
  PROVE  /\ Behind(Editor!Cut(d), d) /\ Behind(Editor!Backspace(d), d)
         /\ \A k : Behind(Editor!CutTo(d, k), d)
  <1>1. ASSUME NEW q, Shape(q) PROVE Behind(Editor!Cut(q), q)
    <2> DEFINE n == SubSeq(q.line, 1, q.cursor) \o SubSeq(q.line, q.cursor + 2, Len(q.line))
               c == [q EXCEPT !.line = n]
    <2>1. Editor!Cut(q) = q \/ Editor!Cut(q) = c \/ Editor!Cut(q) = Editor!FixCursor(c, TRUE)
      BY Zenon DEF Editor!Cut
    <2> HIDE DEF n
    <2>2. Behind(c, q) /\ Shape(c)
      BY <1>1 DEF Shape, Behind
    <2> HIDE DEF c
    <2>3. Behind(Editor!FixCursor(c, TRUE), c)
      BY <2>2, RowsOnly, BehindRow, Zenon
    <2>4. Behind(Editor!FixCursor(c, TRUE), q)
      BY <2>2, <2>3, BehindTwice, Zenon
    <2> QED BY <1>1, <2>1, <2>2, <2>4, BehindSelf, Zenon
  <1>2. Behind(Editor!Backspace(d), d)
    <2> DEFINE i == d.cursor - 1
               j == IF d.echo THEN d.col - 1 ELSE d.col
               c == [d EXCEPT !.cursor = i, !.col = j]
    <2>1. Editor!Backspace(d) = d \/ Editor!Backspace(d) = Editor!Cut(c)
      BY Zenon DEF Editor!Backspace
    <2> HIDE DEF i, j
    <2>2. Behind(c, d) /\ Shape(c)
      BY DEF Shape, Behind
    <2> HIDE DEF c
    <2>3. Behind(Editor!Cut(c), c)
      BY <1>1, <2>2, Zenon
    <2>4. Behind(Editor!Cut(c), d)
      BY <2>2, <2>3, BehindTwice, Zenon
    <2> QED BY <2>1, <2>4, BehindSelf, Zenon
  <1>3. ASSUME NEW k PROVE Behind(Editor!CutTo(d, k), d)
    <2> DEFINE n == SubSeq(d.line, 1, k) \o SubSeq(d.line, d.cursor + 1, Len(d.line))
               c == [d EXCEPT !.line = n, !.cursor = k]
    <2>1. Editor!CutTo(d, k) = d \/ Editor!CutTo(d, k) = Editor!Redraw(c)
      BY Zenon DEF Editor!CutTo
    <2> HIDE DEF n
    <2>2. Behind(c, d) /\ Shape(c)
      BY DEF Shape, Behind
    <2> HIDE DEF c
    <2>3. Behind(Editor!Redraw(c), c)
      BY <2>2, RowsOnly, BehindRow, Zenon
    <2>4. Behind(Editor!Redraw(c), d)
      BY <2>2, <2>3, BehindTwice, Zenon
    <2> QED BY <2>1, <2>4, BehindSelf, Zenon
  <1> QED BY <1>1, <1>2, <1>3, Zenon

\* A character goes in at the cursor, or is dropped.
LEMMA InsertBehind ==
  ASSUME NEW d, Shape(d), NEW x
  PROVE  LET r == Editor!Insert(d, x) IN
         Behind(r, d) /\ r.offset = d.offset /\ (r.line = d.line \/ r.line = PutIn(d.line, d.cursor, x))
  <1> DEFINE r == Editor!Insert(d, x)
             n == PutIn(d.line, d.cursor, x)
             i == d.cursor + 1
             put == [d EXCEPT !.line = n, !.cursor = i]
             on == Editor!Emit(put, <<x>>)
             over == [d EXCEPT !.overflow = TRUE]
  <1>1. r = over \/ r = put \/ r = Editor!FixCursor(on, FALSE)
    BY Zenon DEF Editor!Insert, PutIn
  <1> HIDE DEF r, n, i
  <1>2. Behind(over, d) /\ over.offset = d.offset /\ over.line = d.line
    BY DEF Shape, Behind
  <1>3. Behind(put, d) /\ put.offset = d.offset /\ put.line = n
    BY DEF Shape, Behind
  <1> HIDE DEF over, put
  <1>4. RowOnly(on, put)
    BY <1>3, RowsOnly, Zenon DEF Behind
  <1> HIDE DEF on
  <1>5. RowOnly(Editor!FixCursor(on, FALSE), on)
    BY <1>4, RowsOnly, Zenon DEF RowOnly
  <1> DEFINE w == Editor!FixCursor(on, FALSE)
  <1> HIDE DEF w
  <1>6. RowOnly(w, put)
    BY <1>4, <1>5, RowTwice, Zenon DEF w
  <1>7. Behind(w, d) /\ w.offset = d.offset /\ w.line = n
    <2>1. Behind(w, put) /\ w.offset = put.offset /\ w.line = put.line
      BY <1>6, BehindRow, Zenon DEF RowOnly, SameText, SamePast
    <2> QED BY <1>3, <2>1, BehindTwice, Zenon
  <1> QED BY <1>1, <1>2, <1>3, <1>7, Zenon DEF r, n, w

\* A paste begins with the last byte of its marker, and only with it.
LEMMA EscapePaste ==
  ASSUME NEW b \in Builds, NEW d, Live(b, d), d.escape > 0, ~d.paste, NEW k, Editor!EscapeByte(d, k).paste
  PROVE  k = "~" /\ Editor!EscapeByte(d, k).escape = 0
  <1> DEFINE m == Editor!EscapeByte(d, k)
  <1>0. Good(b, d)
    BY Zenon DEF Live
  <1>s. Shape(d) /\ Keys(b, d) /\ Sized(b, d.line, d.cursor, d.echo)
    BY <1>0, GoodIs, Zenon
  <1>1. d.escape \in {1, 2, 3} /\ d.cursor \in Nat
    <2>1. d.escape \in 0 .. 3 /\ d.cursor \in 0 .. Len(d.line)
      BY <1>s, Zenon DEF Keys, Sized
    <2> QED BY <2>1
  <1>2. ASSUME NEW q, Shape(q) PROVE Shape(Editor!EscapeEnds(q)) /\ Editor!EscapeEnds(q).escape = 0 /\ Editor!EscapeEnds(q).paste = q.paste
    BY <1>2 DEF Editor!EscapeEnds, Shape
  <1>3. \A i : Behind(Editor!Move(d, i), d) /\ Shape(Editor!Move(d, i))
    BY <1>1, <1>s, MovesBehind, Zenon DEF Behind
  <1>4. CASE d.escape = 1 /\ k = "["
    <2> DEFINE r == [d EXCEPT !.escape = 2]
    <2>1. d.escape # 2 /\ d.escape # 3
      BY <1>4
    <2>2. r = m
      BY <1>4, <2>1, Zenon DEF Editor!EscapeByte
    <2>3. r.paste = d.paste
      BY <1>s DEF Shape
    <2> QED BY <2>2, <2>3, Zenon
  <1>5. CASE d.escape = 1 /\ k # "["
    <2> DEFINE r == [d EXCEPT !.escape = 0]
    <2>0. d.escape # 2 /\ d.escape # 3
      BY <1>5
    <2>1. m = Editor!Move(r, k)
      BY <1>5, <2>0, Zenon DEF Editor!EscapeByte
    <2>2. Shape(r) /\ r.paste = d.paste /\ r.cursor = d.cursor
      BY <1>s DEF Shape
    <2> HIDE DEF r
    <2>3. Behind(Editor!Move(r, k), r)
      BY <1>1, <2>2, MovesBehind, Zenon
    <2> QED BY <2>1, <2>2, <2>3, Zenon DEF Behind
  <1>6. CASE d.escape = 2 /\ k \in Editor!Numbers
    <2> DEFINE r == [d EXCEPT !.escape = 3, !.number = k]
    <2>0. d.escape # 1 /\ d.escape # 3
      BY <1>6
    <2>1. r = m
      BY <1>6, <2>0, Zenon DEF Editor!EscapeByte
    <2>2. r.paste = d.paste
      BY <1>s DEF Shape
    <2> QED BY <2>1, <2>2, Zenon
  <1>7. CASE d.escape = 3 /\ k \in Editor!Numbers
    <2>0. d.escape # 1 /\ d.escape # 2 /\ k # "~"
      BY <1>7 DEF Editor!Numbers
    <2>1. m = Editor!EscapeEnds(d)
      BY <1>7, <2>0, Zenon DEF Editor!EscapeByte
    <2> QED BY <1>2, <1>s, <2>1, Zenon
  <1>8. CASE d.escape = 3 /\ k = "~" /\ k \notin Editor!Numbers
    <2>0. d.escape # 1 /\ d.escape # 2
      BY <1>8
    <2>1. m = Editor!EscapeEnds(Editor!Tilde(d))
      BY <1>8, <2>0, Zenon DEF Editor!EscapeByte
    <2>2. d.number \in Editor!Numbers
      BY <1>8, <1>s, Zenon DEF Keys
    <2>3. Live(b, Editor!Tilde(d))
      BY <2>2, TildeKeeps, Zenon
    <2>4. Shape(Editor!Tilde(d))
      BY <2>3, GoodIs, Zenon DEF Live
    <2> QED BY <1>2, <1>8, <2>1, <2>4, Zenon
  <1>9. CASE d.escape # 1 /\ ~(d.escape \in {2, 3} /\ k \in Editor!Numbers) /\ ~(d.escape = 3 /\ k = "~")
    <2>1. m = Editor!EscapeEnds(Editor!Move(d, k))
      BY <1>9, Zenon DEF Editor!EscapeByte
    <2>2. Shape(Editor!Move(d, k)) /\ Editor!Move(d, k).paste = d.paste
      BY <1>3, Zenon DEF Behind
    <2>3. m.paste = d.paste
      BY <1>2, <2>1, <2>2, Zenon
    <2> QED BY <2>3, Zenon
  <1> QED BY <1>1, <1>4, <1>5, <1>6, <1>7, <1>8, <1>9, Zenon

\* ps_editor_feed_inner in a paste: a character goes in, or is dropped.
LEMMA InnerPasted ==
  ASSUME NEW d0, Shape(d0), d0.escape = 0, NEW k, k \notin Editor!Control
  PROVE  LET m == Editor!Inner(d0, k) IN
         /\ m.paste = d0.paste /\ m.escape = 0 /\ m.journal = d0.journal
         /\ m.history = d0.history /\ m.offset = d0.offset
         /\ m.line = d0.line \/ m.line = PutIn(d0.line, d0.cursor, k)
         /\ Editor!Asks(d0, k) = "none"
  <1> DEFINE d == Editor!Unsuggested(d0, k)
             q == [d EXCEPT !.cr = FALSE]
             m == Editor!Inner(d0, k)
  <1>0. k \notin {"CR", "LF", "TAB", "^A", "^C", "^D", "^E", "^L", "^U", "^W", "BS", "ESC"} /\ ~(d0.escape > 0)
    BY DEF Editor!Control
  <1>1. RowOnly(d, d0)
    <2>1. d = Editor!EraseGhost(d0) \/ d = d0
      BY Zenon DEF Editor!Unsuggested
    <2> HIDE DEF d
    <2> QED BY <2>1, RowsOnly, BehindSelf, Zenon
  <1>2. d.escape = 0 /\ ~(d.escape > 0)
    BY <1>0, <1>1, Zenon DEF RowOnly, SameKeys
  <1>3. m = q \/ m = Editor!Insert(q, k)
    <2>1. ~(d.cr /\ k = "LF") /\ k \notin {"CR", "LF", "^C"} /\ k \notin {"ESC", "^A", "^E", "^U", "^W", "^D", "^L", "BS"}
      BY <1>0, Zenon
    <2> HIDE DEF d, q
    <2>2. m = CASE d.cr /\ k = "LF" -> q
       [] ~(d.cr /\ k = "LF") /\ k \in {"CR", "LF"} -> Editor!NewRow([d EXCEPT !.cr = (k = "CR")])
       [] k = "^C" -> Editor!NewRow(Editor!Cleared(q))
       [] k \notin {"CR", "LF", "^C"} /\ d.overflow -> q
       [] k \notin {"CR", "LF", "^C"} /\ ~d.overflow ->
            CASE d.escape > 0 -> Editor!EscapeByte(q, k)
              [] d.escape = 0 /\ k = "ESC" -> [q EXCEPT !.escape = 1]
              [] d.escape = 0 /\ k = "^A" -> Editor!Move(q, "H")
              [] d.escape = 0 /\ k = "^E" -> Editor!Move(q, "F")
              [] d.escape = 0 /\ k = "^U" -> Editor!CutTo(q, 0)
              [] d.escape = 0 /\ k = "^W" -> Editor!CutTo(q, Editor!WordStart(q))
              [] d.escape = 0 /\ k = "^D" -> Editor!Cut(q)
              [] d.escape = 0 /\ k = "^L" -> IF d.echo THEN Editor!Redraw(Editor!NewRow(q)) ELSE q
              [] d.escape = 0 /\ k = "BS" -> Editor!Backspace(q)
              [] d.escape = 0 /\ k \in Editor!Visible \cup Editor!InCSI \cup {"201", Editor!Secret} -> Editor!Insert(q, k)
              [] OTHER -> q
      BY Zenon DEF Editor!Inner, d, q
    <2> HIDE DEF m
    <2>3. CASE d.overflow
      BY <2>1, <2>2, <2>3, Zenon
    <2>4. CASE ~d.overflow
      <3>1. m = CASE d.escape > 0 -> Editor!EscapeByte(q, k)
              [] d.escape = 0 /\ k = "ESC" -> [q EXCEPT !.escape = 1]
              [] d.escape = 0 /\ k = "^A" -> Editor!Move(q, "H")
              [] d.escape = 0 /\ k = "^E" -> Editor!Move(q, "F")
              [] d.escape = 0 /\ k = "^U" -> Editor!CutTo(q, 0)
              [] d.escape = 0 /\ k = "^W" -> Editor!CutTo(q, Editor!WordStart(q))
              [] d.escape = 0 /\ k = "^D" -> Editor!Cut(q)
              [] d.escape = 0 /\ k = "^L" -> IF d.echo THEN Editor!Redraw(Editor!NewRow(q)) ELSE q
              [] d.escape = 0 /\ k = "BS" -> Editor!Backspace(q)
              [] d.escape = 0 /\ k \in Editor!Visible \cup Editor!InCSI \cup {"201", Editor!Secret} -> Editor!Insert(q, k)
              [] OTHER -> q
        BY <2>1, <2>2, <2>4, Zenon
      <3>2. CASE k \in Editor!Visible \cup Editor!InCSI \cup {"201", Editor!Secret}
        BY <1>2, <2>1, <3>1, <3>2, Zenon
      <3>3. CASE k \notin Editor!Visible \cup Editor!InCSI \cup {"201", Editor!Secret}
        BY <1>2, <2>1, <3>1, <3>3, Zenon
      <3> QED BY <3>2, <3>3, Zenon
    <2> QED BY <2>3, <2>4, Zenon
  <1> HIDE DEF m, d
  <1>4. Shape(d)
    BY <1>1, Zenon DEF RowOnly
  <1>5. Behind(q, d) /\ Shape(q) /\ q.offset = d.offset /\ q.line = d.line /\ q.cursor = d.cursor
    BY <1>4 DEF Shape, Behind
  <1> HIDE DEF q
  <1>6. Behind(m, q) /\ m.offset = q.offset /\ (m.line = q.line \/ m.line = PutIn(q.line, q.cursor, k))
    <2>1. Behind(q, q)
      BY <1>5, BehindSelf, Zenon
    <2>2. LET r == Editor!Insert(q, k) IN
          Behind(r, q) /\ r.offset = q.offset /\ (r.line = q.line \/ r.line = PutIn(q.line, q.cursor, k))
      BY <1>5, InsertBehind, Zenon
    <2> QED BY <1>3, <2>1, <2>2, Zenon
  <1>7. Behind(d, d0) /\ d.offset = d0.offset /\ d.line = d0.line /\ d.cursor = d0.cursor
    BY <1>1, BehindRow, Zenon DEF RowOnly, SameText, SamePast
  <1>8. Behind(m, d0)
    BY <1>5, <1>6, <1>7, BehindTwice, Zenon
  <1>9. Editor!Asks(d0, k) = "none"
    BY <1>0, Zenon DEF Editor!Asks
  <1>10. m.offset = d0.offset /\ (m.line = d0.line \/ m.line = PutIn(d0.line, d0.cursor, k))
    BY <1>5, <1>6, <1>7, Zenon
  <1> QED BY <1>8, <1>9, <1>10, Zenon DEF Behind, m

\* The two in ps_editor_feed_inner.
LEMMA InnerPaste ==
  ASSUME NEW b \in Builds, build = b, NEW d0, Live(b, d0), ~d0.paste, NEW k, Editor!Inner(d0, k).paste
  PROVE  k = "~" /\ Editor!Inner(d0, k).escape = 0
  <1> DEFINE d == Editor!Unsuggested(d0, k)
             q == [d EXCEPT !.cr = FALSE]
             m == Editor!Inner(d0, k)
  <1>0. d.paste = d0.paste /\ Live(b, d)
    <2>1. d = Editor!EraseGhost(d0) \/ d = d0
      BY Zenon DEF Editor!Unsuggested
    <2> HIDE DEF d
    <2> QED BY <2>1, EraseKeeps, Zenon DEF SameKeys
  <1>1. m = CASE d.cr /\ k = "LF" -> q
       [] ~(d.cr /\ k = "LF") /\ k \in {"CR", "LF"} -> Editor!NewRow([d EXCEPT !.cr = (k = "CR")])
       [] k = "^C" -> Editor!NewRow(Editor!Cleared(q))
       [] k \notin {"CR", "LF", "^C"} /\ d.overflow -> q
       [] k \notin {"CR", "LF", "^C"} /\ ~d.overflow ->
            CASE d.escape > 0 -> Editor!EscapeByte(q, k)
              [] d.escape = 0 /\ k = "ESC" -> [q EXCEPT !.escape = 1]
              [] d.escape = 0 /\ k = "^A" -> Editor!Move(q, "H")
              [] d.escape = 0 /\ k = "^E" -> Editor!Move(q, "F")
              [] d.escape = 0 /\ k = "^U" -> Editor!CutTo(q, 0)
              [] d.escape = 0 /\ k = "^W" -> Editor!CutTo(q, Editor!WordStart(q))
              [] d.escape = 0 /\ k = "^D" -> Editor!Cut(q)
              [] d.escape = 0 /\ k = "^L" -> IF d.echo THEN Editor!Redraw(Editor!NewRow(q)) ELSE q
              [] d.escape = 0 /\ k = "BS" -> Editor!Backspace(q)
              [] d.escape = 0 /\ k \in Editor!Visible \cup Editor!InCSI \cup {"201", Editor!Secret} -> Editor!Insert(q, k)
              [] OTHER -> q
    BY Zenon DEF Editor!Inner
  <1> HIDE DEF d, m
  <1>2. Shape(d) /\ Good(b, d) /\ Synced(d) /\ Keys(b, d)
    BY <1>0, GoodIs, Zenon DEF Live
  <1>3. ASSUME NEW v
        PROVE  \E r : r = [d EXCEPT !.cr = v] /\ Shape(r) /\ r.escape = d.escape /\ r.paste = d.paste
    <2> DEFINE r == [d EXCEPT !.cr = v]
    <2>1. Shape(r) /\ r.escape = d.escape /\ r.paste = d.paste
      BY <1>2 DEF Shape
    <2>2. r = [d EXCEPT !.cr = v]
      BY Zenon
    <2> HIDE DEF r
    <2> QED BY <2>1, <2>2, Zenon
  <1>4. q.paste = d.paste /\ Shape(q) /\ q.escape = d.escape /\ q.cursor \in Nat /\ (d.escape > 0 => Live(b, q))
    <2>1. Sized(b, d.line, d.cursor, d.echo)
      BY <1>2, GoodIs, Zenon
    <2>2. d.cursor \in Nat
      <3>1. d.cursor \in 0 .. Len(d.line)
        BY <2>1, Zenon DEF Sized
      <3> QED BY <3>1
    <2>3. /\ Shape(q) /\ SameText(q, d) /\ SameOffer(q, d) /\ SamePast(q, d) /\ q.shown = d.shown /\ q.col = d.col
          /\ q.escape = d.escape /\ q.number = d.number /\ q.paste = d.paste /\ q.match = d.match
          /\ q.overflow = d.overflow /\ q.cr = FALSE /\ q.echo = d.echo /\ q.ansi = d.ansi
      BY <1>2 DEF Shape, SameText, SameOffer, SamePast
    <2> HIDE DEF q
    <2>4. q.cr \in BOOLEAN
      BY <2>3
    <2>5. Keys(b, q)
      BY <1>2, <2>3, <2>4, Zenon DEF Keys
    <2>6. Live(b, q)
      BY <1>2, <2>3, <2>5, KeyKeeps, Zenon DEF Live
    <2>7. q.cursor = d.cursor
      BY <2>3, Zenon DEF SameText
    <2> QED BY <2>2, <2>3, <2>6, <2>7, Zenon
  <1> HIDE DEF q
  <1>5. ASSUME m.paste = d.paste PROVE FALSE
    BY <1>0, <1>5, Zenon DEF m
  <1>6. CASE k = "^C"
    <2>1. \/ m = q \/ m = Editor!NewRow(Editor!Cleared(q))
      BY <1>1, <1>6, Zenon
    <2>2. \A x : ~Editor!NewRow(Editor!Cleared(x)).paste
      BY DEF Editor!NewRow, Editor!Cleared, Editor!Fresh
    <2> QED BY <1>4, <1>5, <2>1, <2>2, Zenon DEF m
  <1>7. CASE k # "^C" /\ d.escape > 0 /\ k \notin {"CR", "LF"} /\ ~d.overflow
    <2>0. d.escape # 0
      BY <1>7
    <2>1. m = Editor!EscapeByte(q, k)
      <3>1. k \notin {"CR", "LF", "^C"} /\ ~d.overflow /\ ~(d.cr /\ k = "LF") /\ k \notin {"CR", "LF"}
        BY <1>7, Zenon
      <3>2. m = CASE d.escape > 0 -> Editor!EscapeByte(q, k)
              [] d.escape = 0 /\ k = "ESC" -> [q EXCEPT !.escape = 1]
              [] d.escape = 0 /\ k = "^A" -> Editor!Move(q, "H")
              [] d.escape = 0 /\ k = "^E" -> Editor!Move(q, "F")
              [] d.escape = 0 /\ k = "^U" -> Editor!CutTo(q, 0)
              [] d.escape = 0 /\ k = "^W" -> Editor!CutTo(q, Editor!WordStart(q))
              [] d.escape = 0 /\ k = "^D" -> Editor!Cut(q)
              [] d.escape = 0 /\ k = "^L" -> IF d.echo THEN Editor!Redraw(Editor!NewRow(q)) ELSE q
              [] d.escape = 0 /\ k = "BS" -> Editor!Backspace(q)
              [] d.escape = 0 /\ k \in Editor!Visible \cup Editor!InCSI \cup {"201", Editor!Secret} -> Editor!Insert(q, k)
              [] OTHER -> q
        BY <1>1, <3>1, Zenon
      <3> QED BY <1>7, <2>0, <3>2, Zenon
    <2>2. q.escape > 0
      BY <1>4, <1>7
    <2>3. ~q.paste /\ Live(b, q)
      BY <1>0, <1>4, <1>7, Zenon
    <2>4. Editor!EscapeByte(q, k).paste
      BY <2>1, Zenon DEF m
    <2>5. k = "~" /\ Editor!EscapeByte(q, k).escape = 0
      BY <2>2, <2>3, <2>4, EscapePaste, Zenon
    <2>6. k = "~" /\ m.escape = 0
      BY <2>1, <2>5, Zenon
    <2> QED BY <2>6, Zenon DEF m
  <1>8. CASE k # "^C" /\ (k \in {"CR", "LF"} \/ d.overflow)
    <2>1. m = q \/ \E v : m = Editor!NewRow([d EXCEPT !.cr = v])
      <3>1. CASE k \in {"CR", "LF"}
        <4>1. m = q \/ m = Editor!NewRow([d EXCEPT !.cr = (k = "CR")])
          <5>1. CASE d.cr /\ k = "LF"
            BY <1>1, <5>1, Zenon
          <5>2. CASE ~(d.cr /\ k = "LF")
            BY <1>1, <1>8, <3>1, <5>2, Zenon
          <5> QED BY <5>1, <5>2, Zenon
        <4> QED BY <4>1, Zenon
      <3>2. CASE k \notin {"CR", "LF"}
        <4>1. k \notin {"CR", "LF", "^C"} /\ d.overflow /\ ~(d.cr /\ k = "LF")
          BY <1>8, <3>2, Zenon
        <4> QED BY <1>1, <1>8, <3>2, <4>1, Zenon
      <3> QED BY <3>1, <3>2, Zenon
    <2>2. ASSUME NEW v PROVE Editor!NewRow([d EXCEPT !.cr = v]).paste = d.paste
      <3>1. PICK r : r = [d EXCEPT !.cr = v] /\ Shape(r) /\ r.paste = d.paste
        BY <1>3, Zenon
      <3>2. RowOnly(Editor!NewRow(r), r)
        BY <3>1, RowsOnly, Zenon
      <3> QED BY <3>1, <3>2, Zenon DEF RowOnly, SameKeys
    <2> QED BY <1>4, <1>5, <2>1, <2>2, Zenon
  <1>9. CASE k # "^C" /\ ~(d.escape > 0) /\ k \notin {"CR", "LF"} /\ ~d.overflow
    <2>1. \/ m = q \/ m = [q EXCEPT !.escape = 1] \/ (\E i : m = Editor!Move(q, i)) \/ (\E i : m = Editor!CutTo(q, i))
          \/ m = Editor!Cut(q) \/ m = Editor!Redraw(Editor!NewRow(q)) \/ m = Editor!Backspace(q) \/ m = Editor!Insert(q, k)
      <3>0. d.escape = 0
        BY <1>2, <1>9 DEF Keys
      <3>1. k \notin {"CR", "LF", "^C"} /\ ~d.overflow /\ ~(d.cr /\ k = "LF") /\ k \notin {"CR", "LF"}
        BY <1>9, Zenon
      <3>2. m = CASE d.escape > 0 -> Editor!EscapeByte(q, k)
              [] d.escape = 0 /\ k = "ESC" -> [q EXCEPT !.escape = 1]
              [] d.escape = 0 /\ k = "^A" -> Editor!Move(q, "H")
              [] d.escape = 0 /\ k = "^E" -> Editor!Move(q, "F")
              [] d.escape = 0 /\ k = "^U" -> Editor!CutTo(q, 0)
              [] d.escape = 0 /\ k = "^W" -> Editor!CutTo(q, Editor!WordStart(q))
              [] d.escape = 0 /\ k = "^D" -> Editor!Cut(q)
              [] d.escape = 0 /\ k = "^L" -> IF d.echo THEN Editor!Redraw(Editor!NewRow(q)) ELSE q
              [] d.escape = 0 /\ k = "BS" -> Editor!Backspace(q)
              [] d.escape = 0 /\ k \in Editor!Visible \cup Editor!InCSI \cup {"201", Editor!Secret} -> Editor!Insert(q, k)
              [] OTHER -> q
        BY <1>1, <3>1, Zenon
      <3>3. \/ m = q \/ m = [q EXCEPT !.escape = 1] \/ m = Editor!Move(q, "H") \/ m = Editor!Move(q, "F")
            \/ m = Editor!CutTo(q, 0) \/ m = Editor!CutTo(q, Editor!WordStart(q)) \/ m = Editor!Cut(q)
            \/ m = Editor!Redraw(Editor!NewRow(q)) \/ m = Editor!Backspace(q) \/ m = Editor!Insert(q, k)
        <4>1. CASE k \in {"ESC", "^A", "^E", "^U", "^W", "^D", "^L", "BS"}
          <5>0. k \notin Editor!Visible \cup Editor!InCSI \cup {"201", Editor!Secret}
            <6>1. {"ESC", "^A", "^E", "^U", "^W", "^D", "^L", "BS"} \subseteq Editor!Control
              BY DEF Editor!Control
            <6> QED BY <4>1, <6>1, Unprinted, Zenon
          <5>1. CASE k = "ESC"
            BY <1>9, <3>0, <3>2, <5>0, <5>1, Zenon
          <5>2. CASE k = "^A"
            BY <1>9, <3>0, <3>2, <5>0, <5>2, Zenon
          <5>3. CASE k = "^E"
            BY <1>9, <3>0, <3>2, <5>0, <5>3, Zenon
          <5>4. CASE k = "^U"
            BY <1>9, <3>0, <3>2, <5>0, <5>4, Zenon
          <5>5. CASE k = "^W"
            BY <1>9, <3>0, <3>2, <5>0, <5>5, Zenon
          <5>6. CASE k = "^D"
            BY <1>9, <3>0, <3>2, <5>0, <5>6, Zenon
          <5>7. CASE k = "^L"
            <6>1. m = IF d.echo THEN Editor!Redraw(Editor!NewRow(q)) ELSE q
              BY <1>9, <3>0, <3>2, <5>0, <5>7, Zenon
            <6> QED BY <6>1, Zenon
          <5>8. CASE k = "BS"
            BY <1>9, <3>0, <3>2, <5>0, <5>8, Zenon
          <5> QED BY <4>1, <5>1, <5>2, <5>3, <5>4, <5>5, <5>6, <5>7, <5>8, Zenon
        <4>2. CASE k \notin {"ESC", "^A", "^E", "^U", "^W", "^D", "^L", "BS"}
          <5>1. CASE k \in Editor!Visible \cup Editor!InCSI \cup {"201", Editor!Secret}
            BY <1>9, <3>0, <3>2, <4>2, <5>1, Zenon
          <5>2. CASE k \notin Editor!Visible \cup Editor!InCSI \cup {"201", Editor!Secret}
            BY <1>9, <3>0, <3>2, <4>2, <5>2, Zenon
          <5> QED BY <5>1, <5>2, Zenon
        <4> QED BY <4>1, <4>2, Zenon
      <3> QED BY <3>3, Zenon
    <2>2. [q EXCEPT !.escape = 1].paste = q.paste
      BY <1>4 DEF Shape
    <2>3. /\ \A i : Editor!Move(q, i).paste = q.paste
          /\ \A i : Editor!CutTo(q, i).paste = q.paste
          /\ Editor!Cut(q).paste = q.paste /\ Editor!Backspace(q).paste = q.paste /\ Editor!Insert(q, k).paste = q.paste
      <3>1. \A i : Behind(Editor!Move(q, i), q)
        BY <1>4, MovesBehind, Zenon
      <3>2. /\ Behind(Editor!Cut(q), q) /\ Behind(Editor!Backspace(q), q)
            /\ \A i : Behind(Editor!CutTo(q, i), q)
        BY <1>4, CutsBehind, Zenon
      <3>3. Behind(Editor!Insert(q, k), q)
        BY <1>4, InsertBehind, Zenon
      <3> QED BY <3>1, <3>2, <3>3, Zenon DEF Behind
    <2>4. Editor!Redraw(Editor!NewRow(q)).paste = q.paste
      <3>1. RowOnly(Editor!NewRow(q), q)
        BY <1>4, RowsOnly, Zenon
      <3>2. RowOnly(Editor!Redraw(Editor!NewRow(q)), Editor!NewRow(q))
        BY <3>1, RowsOnly, Zenon DEF RowOnly
      <3> QED BY <3>1, <3>2, Zenon DEF RowOnly, SameKeys
    <2> QED BY <1>4, <1>5, <2>1, <2>2, <2>3, <2>4, Zenon
  <1> QED BY <1>6, <1>7, <1>8, <1>9, Zenon DEF m

\* No character of an editor is half of another one.
LEMMA LinesAreWhole == ASSUME NEW b \in Builds, NEW echo, NEW l \in Seq(Held(b, echo)) PROVE EndsWhole(l)
  <1> DEFINE H == Held(b, echo)
  <1>1. "lead" \notin H
    <2>1. "lead" \notin b.visible
      BY EditorAssumption, Zenon
    <2>2. "lead" \notin Editor!InCSI \cup {"201", Editor!Secret}
      BY DEF Editor!InCSI, Editor!Numbers, Editor!Finals, Editor!Secret
    <2>3. "lead" # Editor!Space
      BY Zenon DEF Editor!Space
    <2> QED BY <2>1, <2>2, <2>3, Zenon DEF Held, Typeable
  <1>2. l \in Seq(H)
    OBVIOUS
  <1> HIDE DEF H
  <1>3. l # <<>> => l[Len(l)] \in H
    BY <1>2
  <1> QED BY <1>1, <1>3, Zenon DEF EndsWhole

\* After a record the journal is at the line.
LEMMA RecordedAt ==
  ASSUME NEW b \in Builds, build = b, b.slots # 0, NEW d, Good(b, d)
  PROVE  Editor!Recorded(d).journal = Record(d.journal, d.line, d.cursor, b.slots) /\ Editor!Recorded(d).journal.at >= 1
  <1> DEFINE F == Frames(b, d.echo)
             n == b.slots
             was == d.journal
             l == d.line
             c == d.cursor
             j == Record(was, l, c, n)
  <1>1. n \in Nat /\ n > 0
    <2>1. n \in Nat
      BY BuildIs, Zenon
    <2> QED BY <2>1
  <1>2. IsJournal(was, F, n) /\ Sized(b, l, c, d.echo) /\ Shape(d)
    BY GoodIs, Zenon DEF Steps
  <1>3. /\ [line |-> l, cursor |-> c] \in F
        /\ \A f \in F : \A i : [f EXCEPT !.cursor = i] = [line |-> f.line, cursor |-> i]
    BY <1>2, FramesAre, Zenon
  <1>4. EndsWhole(l)
    BY <1>2, LinesAreWhole, Zenon DEF Sized
  <1>5. Editor!Recorded(d) = [d EXCEPT !.journal = j]
    BY EditorRecord, Zenon DEF Editor!Recorded
  <1>6. Shows(j, l, c)
    <2> HIDE DEF F, n, was, l, c
    <2> QED BY <1>1, <1>2, <1>3, <1>4, RecordKeeps
  <1> HIDE DEF j
  <1>7. [d EXCEPT !.journal = j].journal = j
    BY <1>2 DEF Shape
  <1>8. j.at >= 1
    BY <1>6 DEF Shows
  <1> QED BY <1>5, <1>7, <1>8, Zenon DEF j

\* A byte that begins a paste asks nothing, ends its sequence and is recorded.
LEMMA TypedPaste ==
  ASSUME NEW b \in Builds, build = b, NEW d, Live(b, d), ~d.paste, NEW k, Sent(b, k, d.echo), Editor!Typed(d, k).paste
  PROVE  /\ Editor!Asks(d, k) = "none" /\ Editor!Typed(d, k).escape = 0
         /\ b.slots # 0 => Editor!Typed(d, k).journal.at >= 1
  <1> DEFINE m == Editor!Inner(Editor!Recorded(d), k)
             r == Editor!Recorded(m)
             clear == [r EXCEPT !.journal = Editor!Empty]
  <1>1. PICK s : s = Editor!Recorded(d) /\ Live(b, s) /\ SameKeys(s, d)
    BY RecordedKeeps, Zenon DEF Live
  <1>2. Sent(b, k, s.echo) /\ ~s.paste
    BY <1>1, Zenon DEF SameKeys
  <1>3. Good(b, m)
    BY <1>1, <1>2, InnerKeeps, Zenon
  <1>4. Good(b, r) /\ SameKeys(r, m) /\ Shape(r)
    <2>1. \E x : x = Editor!Recorded(m) /\ Good(b, x) /\ SameKeys(x, m)
      BY <1>3, RecordedKeeps, Zenon
    <2>2. Good(b, r) /\ SameKeys(r, m)
      BY <2>1, Zenon
    <2> QED BY <2>2, GoodIs, Zenon
  <1>5. Editor!Typed(d, k) = IF Editor!Asks(d, k) \in {"submit", "tooLong", "cancel"} THEN clear ELSE r
    BY Zenon DEF Editor!Typed
  <1>6. b.slots # 0 => r.journal.at >= 1
    BY <1>3, RecordedAt, Zenon
  <1> HIDE DEF m
  <1>7. m.paste
    <2> HIDE DEF r
    <2>1. clear.paste = r.paste
      BY <1>4 DEF Shape
    <2>2. r.paste
      BY <1>5, <2>1, Zenon
    <2> QED BY <1>4, <2>2, Zenon DEF SameKeys
  <1>8. k = "~" /\ m.escape = 0
    BY <1>1, <1>2, <1>7, InnerPaste, Zenon DEF m
  <1>9. Editor!Asks(d, k) = "none"
    BY <1>8, Zenon DEF Editor!Asks
  <1>10. Editor!Typed(d, k) = r
    <2>1. "none" \notin {"submit", "tooLong", "cancel"}
      OBVIOUS
    <2> QED BY <1>5, <1>9, <2>1, Zenon
  <1> QED BY <1>4, <1>6, <1>8, <1>9, <1>10, Zenon DEF SameKeys

\* A paste that has begun: the sequence that began it is over, and the journal holds a
\* snapshot from before it.
PasteGood == e.paste => event = "none" /\ e.escape = 0 /\ (build.slots # 0 => e.journal.at >= 1)

LEMMA RecordedPast ==
  ASSUME NEW d, Shape(d)
  PROVE  LET r == Editor!Recorded(d) IN
         r.history = d.history /\ r.offset = d.offset /\ r.line = d.line /\ r.paste = d.paste /\ r.escape = d.escape
  <1> DEFINE j == Editor!Record(d.journal, d.line, d.cursor, build.slots)
             r == [d EXCEPT !.journal = j]
  <1>1. Editor!Recorded(d) = d \/ Editor!Recorded(d) = r
    BY Zenon DEF Editor!Recorded
  <1> HIDE DEF j
  <1>2. r.history = d.history /\ r.offset = d.offset /\ r.line = d.line /\ r.paste = d.paste /\ r.escape = d.escape
    BY DEF Shape
  <1> HIDE DEF r
  <1> QED BY <1>1, <1>2, Zenon

\* Its bytes: only characters are added, and the end is one step of the journal.
LEMMA PasteFed ==
  ASSUME NEW b \in Builds, build = b, Live(b, e), PasteGood, e.paste, NEW k \in Editor!Bytes, Editor!Feed(k)
  PROVE  Editor!PasteIsInert /\ PasteGood'
  <1> DEFINE d == [e EXCEPT !.match = IF k = "ESC" THEN 1 ELSE 0]
             p == Editor!Pasted(d, k)
             on == [e EXCEPT !.match = @ + 1]
             off == [e EXCEPT !.paste = FALSE, !.match = 0]
             l == e.line
             H == Held(b, e.echo)
  <1>0. build' = build
    BY DEF Editor!Feed
  <1>1. Good(b, e) /\ Shape(e) /\ Sized(b, e.line, e.cursor, e.echo)
    BY GoodIs, Zenon DEF Live
  <1>2. e.escape = 0 /\ (build.slots # 0 => e.journal.at >= 1)
    BY Zenon DEF PasteGood
  <1>3. /\ Editor!Matches(e, k) => e' = (IF e.match + 1 < Len(Editor!Marker) THEN on ELSE Editor!Recorded(off)) /\ event' = "none"
        /\ ~Editor!Matches(e, k) => IF p \in Editor!Control THEN e' = d /\ event' = "none"
                       ELSE e' = Editor!Typed(d, p) /\ event' = Editor!Asks(d, p)
    BY Zenon DEF Editor!Feed
  <1>4. l \in Seq(H) /\ e.cursor \in 0 .. Len(l)
    BY <1>1, Zenon DEF Sized
  <1>5. Editor!Subsequence(l, l)
    BY <1>4, SubsequenceSame, Zenon
  <1>6. /\ d.paste = e.paste /\ d.escape = e.escape /\ d.journal = e.journal /\ d.history = e.history /\ d.offset = e.offset
        /\ d.line = e.line /\ d.cursor = e.cursor /\ Shape(d)
        /\ on.paste = e.paste /\ on.escape = e.escape /\ on.journal = e.journal /\ on.history = e.history /\ on.offset = e.offset
        /\ on.line = e.line
    BY <1>1 DEF Shape
  <1>7. /\ off.paste = FALSE /\ off.escape = e.escape /\ off.journal = e.journal /\ off.history = e.history
        /\ off.offset = e.offset /\ off.line = e.line /\ off.cursor = e.cursor /\ Shape(off)
    BY <1>1 DEF Shape
  <1>8. ASSUME e'.paste, e'.journal = e.journal, e'.history = e.history, e'.offset = e.offset, e'.escape = 0,
               event' = "none", Editor!Subsequence(l, e'.line)
        PROVE  Editor!PasteIsInert /\ PasteGood'
    BY <1>0, <1>2, <1>8, Zenon DEF PasteGood, Editor!PasteIsInert
  <1> HIDE DEF d, p, on
  <1>9. CASE Editor!Matches(e, k) /\ e.match + 1 < Len(Editor!Marker)
    <2>1. e' = on /\ event' = "none"
      BY <1>3, <1>9, Zenon
    <2> QED BY <1>2, <1>5, <1>6, <1>8, <2>1, Zenon
  <1>10. CASE Editor!Matches(e, k) /\ ~(e.match + 1 < Len(Editor!Marker))
    <2>1. e' = Editor!Recorded(off) /\ event' = "none"
      BY <1>3, <1>10, Zenon
    <2>2. Good(b, off)
      <3>1. /\ Shape(off) /\ SameText(off, e) /\ SameOffer(off, e) /\ SamePast(off, e)
            /\ off.shown = e.shown /\ off.col = e.col /\ off.echo = e.echo /\ off.ansi = e.ansi
            /\ off.escape = e.escape /\ off.number = e.number /\ off.paste = FALSE /\ off.match = 0
            /\ off.overflow = e.overflow /\ off.cr = e.cr
        BY <1>1 DEF Shape, SameText, SameOffer, SamePast
      <3>2. 0 \in 0 .. 3 /\ FALSE \in BOOLEAN /\ Keys(b, e)
        BY <1>1, GoodIs
      <3> HIDE DEF off
      <3>3. Keys(b, off)
        BY <3>1, <3>2, Zenon DEF Keys
      <3> QED BY <1>1, <3>1, <3>3, KeyKeeps, Zenon
    <2> HIDE DEF off
    <2>3. e'.history = e.history /\ e'.offset = e.offset /\ e'.line = e.line /\ ~e'.paste
      BY <1>7, <2>1, RecordedPast, Zenon
    <2>4. PasteGood'
      BY <2>3, Zenon DEF PasteGood
    <2>5. ASSUME build.slots > 1, e.line # e.journal.frames[e.journal.at].line
          PROVE  /\ Editor!Reaches(e'.journal, e'.journal.at - 1)
                 /\ e'.journal.frames[e'.journal.at - 1] = e.journal.frames[e.journal.at]
      <3> DEFINE F == Frames(b, e.echo)
                 n == b.slots
                 j == e.journal
                 c == e.cursor
                 now == Record(j, l, c, n)
      <3>1. n \in Nat
        BY BuildIs, Zenon
      <3>2. n > 1 /\ n # 0
        BY <2>5, <3>1
      <3>3. e'.journal = now
        BY <1>7, <2>1, <2>2, <3>2, RecordedAt, Zenon
      <3>4. j.at >= 1 /\ IsJournal(j, F, n) /\ EndsWhole(l) /\ j.frames[j.at].line # l
        BY <1>1, <1>2, <1>4, <2>5, <3>2, GoodIs, LinesAreWhole, Zenon DEF Steps
      <3> HIDE DEF F, n, j, l, c, now
      <3>5. now.at - 1 \in 1 .. Len(now.frames) /\ now.frames[now.at - 1] = j.frames[j.at]
        BY <3>1, <3>2, <3>4, RecordAfter DEF now
      <3> QED BY <3>3, <3>5, Zenon DEF Editor!Reaches, j
    <2> QED BY <1>5, <2>1, <2>3, <2>4, <2>5, Zenon DEF Editor!PasteIsInert
  <1>11. CASE ~Editor!Matches(e, k) /\ p \in Editor!Control
    <2>1. e' = d /\ event' = "none"
      BY <1>3, <1>11, Zenon
    <2> QED BY <1>2, <1>5, <1>6, <1>8, <2>1, Zenon
  <1>12. CASE ~Editor!Matches(e, k) /\ p \notin Editor!Control
    <2> DEFINE m == Editor!Inner(d, p)
    <2>1. e' = Editor!Typed(d, p) /\ event' = Editor!Asks(d, p)
      BY <1>3, <1>12, Zenon
    <2>2. d.escape = 0
      BY <1>2, <1>6, Zenon
    <2>3. /\ m.paste = d.paste /\ m.escape = 0 /\ m.journal = d.journal
          /\ m.history = d.history /\ m.offset = d.offset
          /\ m.line = d.line \/ m.line = PutIn(d.line, d.cursor, p)
          /\ Editor!Asks(d, p) = "none"
      BY <1>6, <1>12, <2>2, InnerPasted, Zenon
    <2>4. e' = m
      <3>1. "none" \notin {"submit", "tooLong", "cancel"}
        OBVIOUS
      <3>2. d.paste
        BY <1>6, Zenon
      <3> QED BY <2>1, <2>3, <3>1, <3>2, Zenon DEF Editor!Typed
    <2> HIDE DEF m
    <2>5. Editor!Subsequence(l, m.line)
      <3>1. Editor!Subsequence(l, PutIn(l, e.cursor, p))
        <4> DEFINE T == H \cup {p}
        <4>1. H \subseteq T /\ p \in T
          OBVIOUS
        <4> HIDE DEF T, H, l
        <4>2. l \in Seq(T)
          BY <1>4, <4>1
        <4> QED BY <1>4, <4>1, <4>2, SubsequencePut, Zenon
      <3> QED BY <1>5, <1>6, <2>3, <3>1, Zenon
    <2> QED BY <1>6, <1>8, <2>1, <2>3, <2>4, <2>5, Zenon
  <1> QED BY <1>9, <1>10, <1>11, <1>12, Zenon

\* A step outside a paste, and the drawing of the row within one.
LEMMA PasteStep ==
  ASSUME EitherOr, EditorGood, PasteGood, Editor!EditorNext
  PROVE  PasteGood' /\ Editor!PasteIsInert
  <1>1. PICK b \in Builds : build = b /\ Good(b, e) /\ (event \notin {"submit", "tooLong"} => Live(b, e))
    BY Zenon DEF EditorGood, Live
  <1>2. "none" \notin {"submit", "tooLong"} /\ "complete" \notin {"submit", "tooLong"}
        /\ "none" # "complete" /\ "none" \notin {"submit", "tooLong", "cancel", "close"}
    OBVIOUS
  <1>3. Shape(e) /\ Sized(b, e.line, e.cursor, e.echo)
    BY <1>1, GoodIs, Zenon
  <1>4. ASSUME ~e.paste, ~e'.paste PROVE PasteGood' /\ Editor!PasteIsInert
    BY <1>4, Zenon DEF PasteGood, Editor!PasteIsInert
  <1>r. ASSUME event = "none", build' = build, event' = event, RowOnly(e', e) PROVE PasteGood' /\ Editor!PasteIsInert
    <2>1. /\ e'.line = e.line /\ e'.paste = e.paste /\ e'.escape = e.escape /\ e'.journal = e.journal
          /\ e'.history = e.history /\ e'.offset = e.offset
      BY <1>r, Zenon DEF RowOnly, SameText, SameKeys, SamePast
    <2>2. Editor!Subsequence(e.line, e'.line)
      <3>1. Editor!Subsequence(e.line, e.line)
        BY <1>3, SubsequenceSame, Zenon DEF Sized
      <3> QED BY <2>1, <3>1, Zenon
    <2> QED BY <1>r, <2>1, <2>2, Zenon DEF PasteGood, Editor!PasteIsInert
  <1>5. ASSUME NEW k \in Editor!Bytes, Editor!Feed(k) PROVE PasteGood' /\ Editor!PasteIsInert
    <2>1. event = "none"
      BY <1>5, Zenon DEF Editor!Feed
    <2>2. Live(b, e) /\ Sent(b, k, e.echo)
      BY <1>1, <1>2, <2>1, BytesSent, Zenon
    <2>3. CASE e.paste
      BY <1>1, <1>5, <2>2, <2>3, PasteFed, Zenon
    <2>4. CASE ~e.paste /\ Editor!UndoKey(e, k)
      <3> DEFINE i == IF k = "_" THEN 1 ELSE -1
                 s == Editor!Recorded(e)
                 r == [s EXCEPT !.escape = 0]
                 j == r.journal
                 n == [r EXCEPT !.journal.at = @ + i, !.overflow = FALSE,
                                !.line = j.frames[j.at + i].line, !.cursor = j.frames[j.at + i].cursor]
      <3>1. e' = Editor!UndoStep(e, i)
        BY <1>5, <2>4, Zenon DEF Editor!Feed
      <3>2. Editor!UndoStep(e, i) = r \/ Editor!UndoStep(e, i) = Editor!Redraw(n)
        BY Zenon DEF Editor!UndoStep
      <3> HIDE DEF i
      <3>3. Shape(s) /\ s.paste = e.paste
        <4>1. PICK x : x = Editor!Recorded(e) /\ Good(b, x) /\ SameKeys(x, e)
          BY <1>1, RecordedKeeps, Zenon
        <4> QED BY <4>1, GoodIs, Zenon DEF SameKeys
      <3> HIDE DEF s
      <3>4. r.paste = s.paste /\ Shape(r)
        BY <3>3 DEF Shape
      <3> HIDE DEF r
      <3>5. n.paste = r.paste /\ Shape(n)
        BY <3>4 DEF Shape
      <3> HIDE DEF n
      <3>6. Editor!Redraw(n).paste = n.paste
        BY <3>5, RowsOnly, Zenon DEF RowOnly, SameKeys
      <3> QED BY <1>4, <2>4, <3>1, <3>2, <3>3, <3>4, <3>5, <3>6, Zenon
    <2>5. CASE ~e.paste /\ ~Editor!UndoKey(e, k)
      <3>1. e' = Editor!Typed(e, k) /\ event' = Editor!Asks(e, k) /\ build' = build
        <4>1. build' = build
          BY <1>5 DEF Editor!Feed
        <4> QED BY <1>5, <2>5, <4>1, Zenon DEF Editor!Feed
      <3>2. CASE e'.paste
        <4>1. event' = "none" /\ e'.escape = 0 /\ (b.slots # 0 => e'.journal.at >= 1)
          BY <1>1, <2>2, <2>5, <3>1, <3>2, TypedPaste, Zenon
        <4> QED BY <1>1, <2>5, <3>1, <4>1, Zenon DEF PasteGood, Editor!PasteIsInert
      <3>3. CASE ~e'.paste
        BY <1>4, <2>5, <3>3, Zenon
      <3> QED BY <3>2, <3>3
    <2> QED BY <2>3, <2>4, <2>5
  <1>6. CASE Editor!Suggest
    <2> DEFINE d == Editor!EraseGhost(e)
               fits == {i \in 1 .. Len(Editor!Offers(d)) : Editor!Continues(d, Editor!Offers(d)[i])}
               o == Editor!Offers(d)[CHOOSE i \in fits : \A k \in fits : i <= k]
               x == Editor!Suffix(d, o.of)
               y == o.space
               z == Editor!Over(d.shown, d.col, x)
               r == [d EXCEPT !.ghost = x, !.space = y, !.shown = z]
    <2>1. event = "none" /\ build' = build /\ event' = event
      BY <1>6 DEF Editor!Suggest
    <2>2. e' = d \/ e' = r
      BY <1>6, Zenon DEF Editor!Suggest
    <2>3. RowOnly(d, e) /\ Shape(d)
      BY <1>3, RowsOnly, Zenon DEF RowOnly
    <2> HIDE DEF d, x, y, z
    <2>4. RowOnly(r, d)
      BY <2>3 DEF Shape, RowOnly, SameText, SameKeys, SamePast
    <2> HIDE DEF r
    <2>5. RowOnly(e', e)
      <3>1. RowOnly(r, e)
        BY <2>3, <2>4, RowTwice, Zenon
      <3> QED BY <2>2, <2>3, <3>1, Zenon
    <2> QED BY <1>r, <2>1, <2>5
  <1>7. CASE Editor!Complete
    <2> DEFINE d == Editor!EraseGhost(e)
               names == {n \in Editor!Range(Names) : Editor!IsPrefix(e.line, n)}
               word == Editor!LongestCommonPrefix(names) \o (IF Editor!Cardinality(names) = 1 THEN <<Editor!Space>> ELSE <<>>)
               r == [d EXCEPT !.line = word, !.cursor = Len(word), !.offset = 0, !.draft = <<>>, !.draftCursor = 0]
    <2>1. ~e.paste
      <3>1. event = "complete"
        BY <1>7, Zenon DEF Editor!Complete
      <3> QED BY <1>2, <3>1, Zenon DEF PasteGood
    <2>2. e' = e \/ e' = d \/ e' = Editor!Redraw(r) \/ e' = Editor!Redraw(Editor!NewRow(d))
      BY <1>7, Zenon DEF Editor!Complete
    <2>3. Shape(d) /\ d.paste = e.paste
      BY <1>3, RowsOnly, Zenon DEF RowOnly, SameKeys
    <2> HIDE DEF d, word
    <2>4. r.paste = d.paste /\ Shape(r)
      BY <2>3 DEF Shape
    <2> HIDE DEF r
    <2>5. Editor!Redraw(r).paste = r.paste
      BY <2>4, RowsOnly, Zenon DEF RowOnly, SameKeys
    <2>6. Editor!NewRow(d).paste = d.paste /\ Shape(Editor!NewRow(d))
      BY <2>3, RowsOnly, Zenon DEF RowOnly, SameKeys
    <2>7. Editor!Redraw(Editor!NewRow(d)).paste = d.paste
      <3>1. Editor!Redraw(Editor!NewRow(d)).paste = Editor!NewRow(d).paste
        BY <2>6, RowsOnly, Zenon DEF RowOnly, SameKeys
      <3> QED BY <2>6, <3>1, Zenon
    <2> QED BY <1>4, <2>1, <2>2, <2>3, <2>4, <2>5, <2>7, Zenon
  <1>8. CASE Editor!Submit \/ Editor!Discard \/ Editor!Close
    <2>1. ~e.paste
      <3>1. event \in {"submit", "tooLong", "cancel", "close"}
        BY <1>8, Zenon DEF Editor!Submit, Editor!Discard, Editor!Close
      <3> QED BY <1>2, <3>1, Zenon DEF PasteGood
    <2>2. \/ \E x, echo : e' = Editor!NewRow([Editor!Cleared(x) EXCEPT !.echo = echo])
          \/ e' = Editor!NewRow(Editor!Cleared(e)) \/ e' = Editor!NewRow(Editor!Fresh(build.ansi))
      BY <1>8, Zenon DEF Editor!Submit, Editor!Discard, Editor!Close, Editor!Answered
    <2>3. /\ \A x : ~Editor!NewRow(Editor!Cleared(x)).paste /\ ~Editor!NewRow(Editor!Fresh(x)).paste
          /\ \A x, echo : ~Editor!NewRow([Editor!Cleared(x) EXCEPT !.echo = echo]).paste
      BY DEF Editor!NewRow, Editor!Cleared, Editor!Fresh
    <2> QED BY <1>4, <2>1, <2>2, <2>3, Zenon
  <1>9. CASE Editor!Refresh \/ Editor!Notice
    <2>1. event = "none" /\ build' = build /\ event' = event
      BY <1>9 DEF Editor!Refresh, Editor!Notice
    <2>2. e' = Editor!Redraw(e) \/ e' = Editor!Redraw(Editor!NewRow(e))
      BY <1>9, Zenon DEF Editor!Refresh, Editor!Notice
    <2>3. RowOnly(e', e)
      <3>1. RowOnly(Editor!NewRow(e), e) /\ Shape(Editor!NewRow(e)) /\ RowOnly(Editor!Redraw(e), e)
        BY <1>3, RowsOnly, Zenon DEF RowOnly
      <3>2. RowOnly(Editor!Redraw(Editor!NewRow(e)), Editor!NewRow(e))
        BY <3>1, RowsOnly, Zenon
      <3>3. RowOnly(Editor!Redraw(Editor!NewRow(e)), e)
        BY <3>1, <3>2, RowTwice, Zenon
      <3> QED BY <2>2, <3>1, <3>3, Zenon
    <2> QED BY <1>r, <2>1, <2>3
  <1> QED BY <1>5, <1>6, <1>7, <1>8, <1>9, Zenon DEF Editor!EditorNext

\* "Bracketed paste never executes controls or submits embedded newlines": whatever bytes
\* come, a paste into the editor only adds characters, and the first undo after it takes it
\* away, as in the prompt's journal.
THEOREM PastesAreInert == ASSUME EitherOr PROVE LineSpec => Pastes
  <1> DEFINE Inv == /\ LineGood /\ (part = "undo" => UndoGood /\ PasteAtStart)
                    /\ (part = "editor" => PasteGood)
             Inert == /\ part = "undo" => Undo!PasteIsOneStep
                      /\ part = "editor" => Editor!PasteIsInert
  <1>1. LineInit => (part = "editor" => PasteGood)
    <2> SUFFICES ASSUME LineInit, part = "editor" PROVE PasteGood
      OBVIOUS
    <2>1. PICK b \in Builds : e = Editor!Fresh(b.ansi)
      BY Zenon DEF LineInit, Editor!EditorInit
    <2>2. ~e.paste
      BY <2>1, FreshIs, Zenon DEF IsFresh
    <2> QED BY <2>2, Zenon DEF PasteGood
  <1>2. LineGood /\ (part = "editor" => PasteGood) /\ [LineNext]_lineVars => (part = "editor" => PasteGood)'
    <2> SUFFICES ASSUME LineGood, part = "editor" => PasteGood, [LineNext]_lineVars, part' = "editor" PROVE PasteGood'
      OBVIOUS
    <2>1. part = "editor" /\ (Editor!EditorNext \/ UNCHANGED editorVars)
      BY DEF LineNext, lineVars
    <2>2. EditorGood /\ PasteGood
      BY <2>1 DEF LineGood
    <2>3. ASSUME UNCHANGED editorVars PROVE PasteGood'
      <3>1. e' = e /\ build' = build /\ event' = event
        BY <2>3 DEF editorVars
      <3> QED BY <2>2, <3>1, Zenon DEF PasteGood
    <2> QED BY <2>1, <2>2, <2>3, PasteStep, Zenon
  <1>3. Inv /\ [LineNext]_lineVars => [Inert]_lineVars
    <2> SUFFICES ASSUME Inv, LineNext PROVE Inert
      BY DEF Inert
    <2>1. part = "undo" => Undo!PasteIsOneStep
      BY PasteEnds DEF LineNext
    <2>2. ASSUME part = "editor" PROVE Editor!PasteIsInert
      <3>1. EditorGood /\ PasteGood /\ Editor!EditorNext
        BY <2>2 DEF LineGood, LineNext
      <3> QED BY <3>1, PasteStep, Zenon
    <2> QED BY <2>1, <2>2
  <1>4. LineSpec => [](part = "editor" => PasteGood)
    BY <1>1, <1>2, LineGoodInvariance, PTL DEF LineSpec
  <1> QED BY <1>3, <1>4, LineGoodInvariance, LineInvariance, PTL DEF LineSpec, Pastes
=============================================================================
