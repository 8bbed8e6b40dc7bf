----------------------------- MODULE TerminalLink -----------------------------
(***************************************************************************)
(* A session and the terminal at the other end of its line: ps_feed takes  *)
(* the line's bytes through the Telnet decoder (on a Telnet line) and the  *)
(* input decoder of src/portable_shell.c, ps_tick resolves a lone Escape.  *)
(*                                                                         *)
(* The terminal is the environment: it types, asks for options the way     *)
(* RFC 1143 tells a client to (never twice before the answer), answers     *)
(* what it is asked, and reports its size.  The host calls ps_tick at      *)
(* least every MaxGap (20 ms in every host loop), the bytes of one key     *)
(* arrive within Spread, and a person waits Pause after a lone Escape.     *)
(***************************************************************************)
EXTENDS InputDecoder, Telnet

CONSTANTS Kinds,     \* the lines considered: "serial", "telnet"
          Eols,      \* what a terminal may send for Enter
          Toggles,   \* <<side, option>> pairs a terminal changes by itself
          Sizes,     \* window sizes; "IAC" is one with a byte 255
          MaxGap, Spread, Pause,
          WireMax    \* by kind: the terminal begins something only while fewer bytes are under way

VARIABLES kind, eol,           \* of this line; they never change
          t, d,                \* s->telnet and the input decoder of the session
          now, gap,            \* s->now, and the time that passed since that ps_tick
          wire, back,          \* bytes to the session, commands to the terminal
          lag,                 \* how long the bytes of the wire have been on it
          pause,               \* how long the person still waits after Escape
          owed,                \* keys meant, and not passed on yet
          says,                \* the terminal's idea of each option
          window,              \* its size
          resting              \* it only answers from now on

terminal == <<owed, says, window, resting, pause>>
linkVars == <<kind, eol, t, d, now, gap, wire, back, lag, terminal>>

-----------------------------------------------------------------------------
\* Bytes of the keys and other things a terminal sends, and the keys they mean.
Key(bytes, means) == [bytes |-> bytes, means |-> means]
Sub(o, v) == <<"IAC", "SB", o>> \o (IF v = "IAC" THEN <<v, v>> ELSE <<v>>) \o <<"IAC", "SE">>

Enter == Key(eol, <<"CR">>)
Escape == Key(<<"ESC">>, <<"esc">>)
Bracketed == Key(<<"ESC">> \o Begin \o <<"A">> \o eol \o End,
                 <<"pasted A">> \o [i \in 1 .. Len(SelectSeq(eol, LAMBDA c : c # "NUL")) |-> "pasted blank"])
Serial == {Enter, Escape, Bracketed, Key(<<"b">>, <<"b">>),
           Key(<<"ESC", "[", "A">>, <<"up">>), Key(<<"ESC", "O", "A">>, <<"up">>),
           Key(<<"ESC", "b">>, <<"wordleft">>), Key(<<"ESC", "[", "Z">>, <<"backtab">>),
           Key(<<"ESC", "[">> \o [i \in 1 .. BufSize |-> "0"] \o <<"A">>, <<>>)}

\* On a Telnet line: a letter 255, the interrupt, and subnegotiations that are too
\* long or broken off.
Network == {Enter, Key(<<"b">>, <<"b">>), Key(<<"IAC", "IAC">>, <<"IAC">>),
            Key(<<"IAC", "IP">>, <<"ETX">>), Key(<<"IAC", "NOP">>, <<>>),
            Key(<<"IAC", "SB", "naws", "b", "b", "IAC", "SE">>, <<>>),
            Key(<<"IAC", "SB", "naws", "IAC", "b", "IAC", "SE">>, <<>>)}

LinkTypeOK == /\ kind \in Kinds /\ eol \in Eols
              /\ t \in Decoder /\ Len(t.sub) <= SubMax
              /\ d \in Input /\ Len(d.buf) < BufSize
              /\ now \in 0 .. ClockMod - 1 /\ gap \in 0 .. MaxGap
              /\ wire \in Seq(STRING) /\ back \in Seq(Seq(STRING))
              /\ lag \in 0 .. Spread /\ pause \in 0 .. Pause /\ resting \in BOOLEAN
              /\ says \in [{"us", "peer"} -> [Option -> {"off", "on", "wantyes", "wantno"}]]

\* (A Telnet line has the line end of RFC 854; the others reach the same decoder.)
LinkInit == /\ kind \in Kinds /\ eol \in Eols /\ (kind = "telnet" => eol = <<"CR", "NUL">>)
            /\ t = Greeted /\ d = NewInput
            /\ now \in (IF kind = "serial" THEN 0 .. ClockMod - 1 ELSE {0}) /\ gap = 0
            /\ wire = <<>> /\ back = (IF kind = "telnet" THEN Greeting ELSE <<>>) /\ lag = 0 /\ pause = 0 /\ owed = <<>>
            /\ says = [side \in {"us", "peer"} |-> [o \in Option |-> "off"]]
            /\ window \in Sizes /\ resting = FALSE

-----------------------------------------------------------------------------
\* The terminal.
Send(bytes) == wire' = wire \o bytes
CanSend == ~resting /\ Len(wire) < WireMax[kind] /\ lag = 0 /\ pause = 0

Type(k) ==
  /\ CanSend
  /\ Send(k.bytes)
  /\ owed' = owed \o k.means
  /\ pause' = IF k = Escape THEN Pause ELSE 0
  /\ UNCHANGED <<kind, eol, t, d, now, gap, back, lag, says, window, resting>>

\* What the terminal says of an option it performs, and of one the session performs.
Asks(side, yes) == IF side = "peer" THEN (IF yes THEN "WILL" ELSE "WONT")
                   ELSE IF yes THEN "DO" ELSE "DONT"

Toggle(side, o) ==
  /\ CanSend /\ kind = "telnet"
  /\ \/ says[side][o] = "off" /\ Send(<<"IAC", Asks(side, TRUE), o>>)
        /\ says' = [says EXCEPT ![side][o] = "wantyes"]
     \/ says[side][o] = "on" /\ Send(<<"IAC", Asks(side, FALSE), o>>)
        /\ says' = [says EXCEPT ![side][o] = "wantno"]
  /\ UNCHANGED <<kind, eol, t, d, now, gap, back, lag, owed, window, resting, pause>>

NewSize(w) ==
  /\ CanSend /\ kind = "telnet" /\ w # window
  /\ window' = w
  /\ Send(IF says["peer"]["naws"] = "on" THEN Sub("naws", w) ELSE <<>>)
  /\ UNCHANGED <<kind, eol, t, d, now, gap, back, lag, owed, says, resting, pause>>

\* The terminal answers the command at the head of back: a name it is asked for, and
\* an option according to what it said of it before.  It may acknowledge again what is
\* so already, and it reports its size whenever it has agreed to.
Reply(verb, o) ==
  LET side == IF verb \in {"DO", "DONT"} THEN "peer" ELSE "us"
      yes  == verb \in {"DO", "WILL"}
      to(s) == says' = [says EXCEPT ![side][o] = s]
      size == IF side = "peer" /\ o = "naws" THEN Sub("naws", window) ELSE <<>>
      say(v, rest) == Send(<<"IAC", Asks(side, v), o>> \o rest)
  IN CASE yes /\ says[side][o] = "off" ->
            \/ to("on") /\ say(TRUE, size)
            \/ to("off") /\ say(FALSE, <<>>)
       [] yes /\ says[side][o] = "on"       -> to("on") /\ (say(TRUE, <<>>) \/ Send(<<>>))
       [] yes /\ says[side][o] = "wantyes"  -> to("on") /\ Send(size)
       [] ~yes /\ says[side][o] = "on"      -> to("off") /\ say(FALSE, <<>>)
       [] OTHER                             -> to("off") /\ Send(<<>>)

Answer ==
  /\ back # <<>>
  /\ back' = Tail(back)
  /\ LET c == Head(back) IN
       IF c[1] = "SEND" THEN Send(Sub(c[2], "vt")) /\ UNCHANGED says ELSE Reply(c[1], c[2])
  /\ UNCHANGED <<kind, eol, t, d, now, gap, lag, owed, window, resting, pause>>

Rest == ~resting /\ resting' = TRUE
        /\ UNCHANGED <<kind, eol, t, d, now, gap, wire, back, lag, owed, says, window, pause>>

-----------------------------------------------------------------------------
\* Keys reach ps_key in the order they were meant, or the line is garbled.
Pass(keys) ==
  owed' = IF keys = SubSeq(owed, 1, Len(keys)) THEN SubSeq(owed, Len(keys) + 1, Len(owed))
          ELSE <<"garbled">>

\* ps_feed of one byte: telnet_byte, or input_byte at once.
Feed ==
  /\ wire # <<>>
  /\ wire' = Tail(wire)
  /\ lag' = IF wire' = <<>> THEN 0 ELSE lag
  /\ LET r == IF kind = "telnet" THEN TelnetFeed(t, Head(wire)) ELSE Result(t, <<>>, Head(wire))
         k == IF r.event \in {"none", "resize", "terminal"} THEN Passes(d, <<>>)
              ELSE InputByte(d, r.event, now)
     IN t' = r.t /\ back' = back \o r.sent /\ d' = k.d /\ Pass(k.keys)
  /\ UNCHANGED <<kind, eol, now, gap, says, window, resting, pause>>

\* ps_tick.
Tick ==
  /\ gap > 0
  /\ now' = (now + gap) % ClockMod /\ gap' = 0
  /\ LET k == Ticked(d, now') IN d' = k.d /\ Pass(k.keys)
  /\ UNCHANGED <<kind, eol, t, wire, back, lag, says, window, resting, pause>>

\* Time passes.  (On a Telnet line it is left out: the input decoder sees the same bytes.)
Wait ==
  /\ kind = "serial" /\ gap < MaxGap
  /\ wire # <<>> => lag < Spread
  /\ gap' = gap + 1
  /\ lag' = IF wire = <<>> THEN 0 ELSE lag + 1
  /\ pause' = IF pause > 0 THEN pause - 1 ELSE 0
  /\ UNCHANGED <<kind, eol, t, d, now, wire, back, owed, says, window, resting>>

LinkNext == \/ \E k \in IF kind = "serial" THEN Serial ELSE Network : Type(k)
            \/ \E x \in Toggles : Toggle(x[1], x[2])
            \/ \E w \in Sizes : NewSize(w)
            \/ Answer \/ Rest \/ Feed \/ Tick \/ Wait

\* The host reads and ticks, the terminal answers, and time passes.
LinkFairness == /\ WF_linkVars(Feed) /\ WF_linkVars(Answer)
                /\ WF_linkVars(Tick) /\ WF_linkVars(Wait)
LinkSpec == LinkInit /\ [][LinkNext]_linkVars /\ LinkFairness

-----------------------------------------------------------------------------
\* Nothing is under way in either direction.
Quiet == wire = <<>> /\ back = <<>>

\* Every key reaches ps_key once, in order, however its bytes are split over calls,
\* whenever ps_tick comes in between, around the wrap of the clock, and whatever
\* commands and broken subnegotiations lie between the keys; a sequence that is too
\* long, an interrupted option or the second byte of a line end is never a key.
KeysInOrder == /\ owed # <<"garbled">>
               /\ Quiet /\ d.esc = "none" => owed = <<>>

\* When the line is quiet both ends agree on every option, whoever asked first and
\* whatever crossed it, and nobody is left waiting for an option the session performs
\* or wants; and once the terminal agreed to report its size, the session draws for
\* that size.  (A terminal that offers again what the session refused is not answered:
\* src/docs/wiki/Transports.md:6, repeated-option suppression.)
OptionsAgree ==
  \A side \in {"us", "peer"}, o \in Option :
    IF o \in Allowed(side)
    THEN says[side][o] = IF t.option[side][o] = "on" THEN "on" ELSE "off"
    ELSE says[side][o] \in {"off", "wantyes"} /\ t.option[side][o] = "off"
SizeKnown == says["peer"]["naws"] = "on" => t.columns = window
EndsAgree == Quiet /\ kind = "telnet" => OptionsAgree /\ SizeKnown

\* Nothing is left to do: the line is silent and a lone Escape was decided.
Done == Quiet /\ d.esc = "none" /\ owed = <<>>
===============================================================================
