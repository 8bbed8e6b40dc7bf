----------------------------- MODULE ByteStream -----------------------------
(***************************************************************************)
(* What the transmit queue of include/portable_async.h promises: a bounded *)
(* first-in first-out stream.  A write takes everything or nothing; the    *)
(* consumer removes from the front what it has transmitted.                *)
(***************************************************************************)
EXTENDS Sequences, Naturals

CONSTANTS Byte, Bound

VARIABLE stream

Init == stream = <<>>

Write(s) == /\ Len(stream) + Len(s) <= Bound
            /\ stream' = stream \o s

Consume(n) == /\ n <= Len(stream)
              /\ stream' = SubSeq(stream, n + 1, Len(stream))

Next == \/ \E n \in 0 .. Bound : \E s \in [1 .. n -> Byte] : Write(s)
        \/ \E n \in 0 .. Bound : Consume(n)

Spec == Init /\ [][Next]_stream
=============================================================================
