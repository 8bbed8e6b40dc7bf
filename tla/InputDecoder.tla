----------------------------- MODULE InputDecoder -----------------------------
(***************************************************************************)
(* input_byte, escape_key and the timeout of ps_tick in                    *)
(* src/portable_shell.c: bytes, one at a time, to keys.  A sequence begins *)
(* with ESC; a lone ESC is told from one by Limit milliseconds without an  *)
(* end.  Bytes inside paste markers are pasted, not typed, and of the two  *)
(* bytes of a line end the second is dropped.                              *)
(*                                                                         *)
(* An operator takes the decoder and returns what it becomes and the keys  *)
(* it passes on.  TerminalLink feeds it.                                   *)
(***************************************************************************)
EXTENDS Integers, Sequences

CONSTANTS BufSize,   \* bytes of s->escbuf, with its terminator
          Limit,     \* 60 ms
          ClockMod   \* the millisecond clock is a number below this: 2^32

ASSUME DecoderAssumption == BufSize \in Nat /\ Limit \in Nat /\ ClockMod \in Nat \ {0}

\* Bytes with a meaning of their own; final ones end a sequence.
Final == {"[", "A", "O", "Z", "b", "~"}
Controls == {"ESC", "CR", "LF", "NUL", "ETX", "DEL", "NAK"}
Begin == <<"[", "2", "0", "0", "~">>
End   == <<"ESC", "[", "2", "0", "1", "~">>

NewInput == [esc |-> "none", buf |-> <<>>, time |-> 0, paste |-> FALSE, match |-> 0, lf |-> FALSE]

Input == [esc : {"none", "esc", "csi", "skip"}, buf : Seq(STRING), time : 0 .. ClockMod - 1,
          paste : BOOLEAN, match : 0 .. 5, lf : BOOLEAN]

\* (Buffer and time stay in the code, which sets both before it reads them.)
Ended(d) == [d EXCEPT !.esc = "none", !.buf = <<>>, !.time = 0]
Passes(d, keys) == [d |-> d, keys |-> keys]

-----------------------------------------------------------------------------
\* escape_key: what the sequence in the buffer means.  Others mean nothing.
EscapeKey(d) ==
  CASE d.buf \in {<<"[", "A">>, <<"O", "A">>} -> Passes(Ended(d), <<"up">>)
    [] d.buf = <<"[", "Z">>                   -> Passes(Ended(d), <<"backtab">>)
    [] d.buf = Begin -> Passes([Ended(d) EXCEPT !.paste = TRUE, !.match = 0], <<>>)
    [] OTHER                                  -> Passes(Ended(d), <<>>)

\* A byte of a paste.  A partial end marker is taken for nothing.
Pasted(c) == CASE c \in {"CR", "LF"} -> <<"pasted blank">>
               [] c \in Controls     -> <<>>
               [] OTHER              -> <<"pasted " \o c>>
MarkedByte(d, c) ==
  CASE c # End[d.match + 1] -> Passes([d EXCEPT !.match = 0], Pasted(c))
    [] d.match + 1 < 6      -> Passes([d EXCEPT !.match = @ + 1], <<>>)
    [] OTHER                -> Passes([d EXCEPT !.match = 0, !.paste = FALSE], <<>>)

\* A byte outside of sequences and pastes.  After CR, LF and NUL belong to it.
Second(d, c) == d.lf /\ c \in {"LF", "NUL"}
PlainByte(d, c, now) ==
  CASE c = "ESC"    -> Passes([d EXCEPT !.esc = "esc", !.buf = <<>>, !.time = now], <<>>)
    [] Second(d, c) -> Passes([d EXCEPT !.lf = FALSE], <<>>)
    [] OTHER        -> Passes([d EXCEPT !.lf = c = "CR"], <<IF c = "LF" THEN "CR" ELSE c>>)

\* The byte after ESC: the introducer of a sequence, a chord, or a key after Escape.
AfterEscape(d, c, now) ==
  LET e == Ended(d) IN
  CASE c \in {"[", "O"} -> Passes([d EXCEPT !.esc = "csi", !.buf = <<c>>], <<>>)
    [] c = "b"          -> Passes(e, <<"wordleft">>)
    [] OTHER            -> LET p == PlainByte(e, c, now) IN Passes(p.d, <<"esc">> \o p.keys)

\* A byte of a sequence.  One too long is skipped to its end.  (Mutation: not skipped.)
SequenceFitsAll(d) == TRUE
SequenceFits(d) == Len(d.buf) + 1 < BufSize
SequenceByte(d, c) ==
  LET e == [d EXCEPT !.buf = Append(@, c)] IN
  CASE ~SequenceFits(d) -> Passes([Ended(d) EXCEPT !.esc = "skip", !.time = d.time], <<>>)
    [] c \in Final      -> EscapeKey(e)
    [] OTHER            -> Passes(e, <<>>)

InputByte(d, c, now) ==
  CASE d.paste        -> MarkedByte(d, c)
    [] d.esc = "skip" -> Passes(IF c \in Final THEN Ended(d) ELSE d, <<>>)
    [] d.esc = "esc"  -> AfterEscape(d, c, now)
    [] d.esc = "csi"  -> SequenceByte(d, c)
    [] OTHER          -> PlainByte(d, c, now)

\* ps_tick: a sequence that did not end in time is dropped, a lone ESC is the key.
\* (Mutation: a comparison of two moments.)
ExpiredUnwrapped(d, now) == d.esc # "none" /\ now >= d.time + Limit
Expired(d, now) == d.esc # "none" /\ (now - d.time) % ClockMod >= Limit
Ticked(d, now) ==
  IF Expired(d, now) THEN Passes(Ended(d), IF d.esc = "esc" THEN <<"esc">> ELSE <<>>)
  ELSE Passes(d, <<>>)
===============================================================================
