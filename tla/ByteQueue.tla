------------------------------ MODULE ByteQueue ------------------------------
(***************************************************************************)
(* The transmit queue of include/portable_async.h: a ring in a buffer the  *)
(* owner provides, with the oldest byte at head.  Sizes are size_t values  *)
(* of WordMod numbers (2^32 or 2^64 in the program), and the code takes    *)
(* care that no sum of two sizes exceeds them.                             *)
(***************************************************************************)
EXTENDS Integers, Sequences

CONSTANTS Byte,      \* byte values
          Capacity,  \* size of the owner's buffer
          WordMod    \* number of size_t values

VARIABLES bytes, head, count

vars == <<bytes, head, count>>

Places == 0 .. Capacity - 1
NoByte == CHOOSE b \in Byte : TRUE

\* Unsigned size_t arithmetic.
Plus(a, b)  == (a + b) % WordMod
Minus(a, b) == (a - b) % WordMod

-----------------------------------------------------------------------------
\* What the buffer holds at first is the owner's business: nobody reads it.
Init == /\ bytes = [p \in Places |-> NoByte]
        /\ head = 0 /\ count = 0

\* ps_byte_queue_space.  (Mutation: one too many.)
SpacePlusOne == Plus(Minus(Capacity, count), 1)
Space == Minus(Capacity, count)

\* Where the next byte goes: head + count around the ring, computed without
\* overflowing size_t.  (Mutation: the plain sum.)
TailSum == Plus(head, count) % Capacity
Tail0 == LET room == Minus(Capacity, head) IN
           IF count >= room THEN Minus(count, room) ELSE Plus(head, count)

\* ps_byte_queue_write.
Write(s) ==
  /\ Len(s) <= Space
  /\ bytes' = [p \in Places |->
       LET k == (p - Tail0) % Capacity IN IF k < Len(s) THEN s[k + 1] ELSE bytes[p]]
  /\ count' = Plus(count, Len(s))
  /\ UNCHANGED head

\* ps_byte_queue_peek: the longest run of queued bytes that does not wrap.
\* (Mutation: never the last place.)
SpanShort == LET room == Minus(Capacity, head) IN IF count < room THEN count ELSE room - 1
Span == LET room == Minus(Capacity, head) IN IF count < room THEN count ELSE room
Peek == [k \in 1 .. Span |-> bytes[head + k - 1]]

\* ps_byte_queue_consume.
Consume(n) ==
  /\ n <= count
  /\ LET room == Minus(Capacity, head) IN
       head' = IF n >= room THEN Minus(n, room) ELSE Plus(head, n)
  /\ count' = Minus(count, n)
  /\ UNCHANGED bytes

Next == \/ \E n \in 0 .. Capacity : \E s \in [1 .. n -> Byte] : Write(s)
        \/ \E n \in 0 .. Capacity : Consume(n)

Spec == Init /\ [][Next]_vars

-----------------------------------------------------------------------------
TypeOK == /\ bytes \in [Places -> Byte]
          /\ head \in Places
          /\ count \in 0 .. Capacity

\* The queued bytes, oldest first.
Contents == [k \in 1 .. count |-> bytes[(head + k - 1) % Capacity]]

\* The ring is a bounded first-in first-out stream: no byte is lost, duplicated,
\* overwritten or reordered by a write that wraps, also when head + count would
\* not fit in a size_t.
Stream == INSTANCE ByteStream WITH stream <- Contents, Bound <- Capacity

IsStream == Stream!Spec

\* The consumer that transmits what peek shows transmits the stream: the span is a
\* prefix of the contents, and it is empty only when the queue is.
PeekIsPrefix == /\ Span <= count
                /\ Peek = SubSeq(Contents, 1, Span)
                /\ count > 0 => Span > 0
=============================================================================
