----------------------------- MODULE HexEditor -----------------------------
(* The binary editor of src/src/portable_hex.inc: bytes overwritten two hex  *)
(* digits or one printable character at a time in a draft the caller lends,  *)
(* saved through its callback.  The screen is left out; a row and a page of  *)
(* cursor movement are a number of columns.                                  *)
EXTENDS Integers, Sequences, FiniteSetsExt

CONSTANTS
  Bytes,      \* the length of the buffer
  Columns,    \* hex_columns: the step of Up and Down
  DigitOf,    \* the value of each key that is a hexadecimal digit
  CodeOf,     \* the byte of each printable key
  Images      \* the contents the caller opens the editor with

VARIABLES
  hex,        \* the hex_* fields of the session
  flash       \* the caller's buffer, written by its save callback only
hexVars == <<hex, flash>>

\* What the caller lends is that many bytes, none at all included; a printable key is
\* the byte 32 to 126.
ASSUME HexAssumption ==
  /\ Bytes \in Nat /\ Columns \in Nat /\ Images \subseteq [1..Bytes -> 0..255]
  /\ CodeOf \in [DOMAIN CodeOf -> 32..126] /\ DigitOf \in [DOMAIN DigitOf -> 0..15]

HexOpened(image) ==
  [open |-> TRUE, data |-> image, pos |-> 1, low |-> FALSE, ascii |-> FALSE,
   dirty |-> FALSE, ask |-> FALSE]
HexClosed == [HexOpened(<<>>) EXCEPT !.open = FALSE]

HexStays(h) == hex' = h /\ UNCHANGED flash

\* The nibble under the cursor: the high one first.
Nibbled(byte, digit, low) == IF low THEN (byte \div 16) * 16 + digit
                                    ELSE (byte % 16) + digit * 16

\* Mutant: only the second digit marks the draft.
OverwrittenWhole(h, value) ==
  LET whole == h.ascii \/ h.low
  IN  [h EXCEPT !.dirty = @ \/ (whole /\ h.data[h.pos] # value),
                !.data[h.pos] = value,
                !.pos = IF whole /\ @ < Bytes THEN @ + 1 ELSE @,
                !.low = ~whole]
\* The byte is marked only when it changes; the cursor steps after a whole byte
\* and stays on the last one.
Overwritten(h, value) ==
  LET whole == h.ascii \/ h.low
  IN  [h EXCEPT !.dirty = @ \/ h.data[h.pos] # value,
                !.data[h.pos] = value,
                !.pos = IF whole /\ @ < Bytes THEN @ + 1 ELSE @,
                !.low = ~whole]

HexOpen == ~hex.open /\ HexStays(HexOpened(flash))

HexStep(by) ==
  /\ hex.open /\ ~hex.ask
  /\ HexStays([hex EXCEPT !.pos = Max({1, Min({Bytes, @ + by})}), !.low = FALSE])

HexTab ==
  /\ hex.open /\ ~hex.ask
  /\ HexStays([hex EXCEPT !.ascii = ~@, !.low = FALSE])

HexSave(accepted) ==
  /\ hex.open /\ ~hex.ask
  /\ IF accepted THEN hex' = [hex EXCEPT !.dirty = FALSE] /\ flash' = hex.data
                 ELSE HexStays(hex)

HexLeave ==
  /\ hex.open
  /\ HexStays(IF hex.ask THEN [hex EXCEPT !.ask = FALSE]
              ELSE IF hex.dirty THEN [hex EXCEPT !.ask = TRUE] ELSE HexClosed)

\* A printable key, typed or pasted: the paste branch of input_byte hands each
\* byte to hex_key, so a pasted d or s answers the dialog too.
HexKey(key, accepted) ==
  /\ hex.open
  /\ CASE hex.ask /\ key = "d" -> HexStays(HexClosed)
       [] hex.ask /\ key = "s" /\ accepted -> hex' = HexClosed /\ flash' = hex.data
       [] ~hex.ask /\ hex.ascii /\ Bytes # 0 -> HexStays(Overwritten(hex, CodeOf[key]))
       [] ~hex.ask /\ ~hex.ascii /\ key \in DOMAIN DigitOf /\ Bytes # 0 ->
            HexStays(Overwritten(hex, Nibbled(hex.data[hex.pos], DigitOf[key], hex.low)))
       [] OTHER -> HexStays(hex)

HexInit == flash \in Images /\ hex = HexOpened(flash)

HexNext ==
  \/ HexOpen \/ HexTab \/ HexLeave
  \/ \E by \in {-Bytes, -Columns, -1, 1, Columns, Bytes} : HexStep(by)
  \/ \E ok \in BOOLEAN : HexSave(ok) \/ \E k \in DOMAIN CodeOf : HexKey(k, ok)

-----------------------------------------------------------------------------
HexTypeOK ==
  /\ hex.open => hex.data \in [1..Bytes -> 0..255] /\ hex.pos \in 1..Max({1, Bytes})
  /\ hex.ask => hex.dirty
  /\ hex.ascii => ~hex.low

\* A buffer shown as saved is the caller's, byte for byte.
HexIsHonest == hex.open /\ ~hex.dirty => hex.data = flash
=============================================================================
