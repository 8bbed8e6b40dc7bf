----------------------------- MODULE Host_proofs ------------------------------
(***************************************************************************)
(* Theorems about the host's programs, its pipelines, its server, its local *)
(* session and its command lines.                                           *)
(***************************************************************************)
EXTENDS MCHost, Bounds_proofs, FiniteSetTheorems, SequenceTheorems, TLAPS

-----------------------------------------------------------------------------
(* One program behind the relay.                                           *)

Pcs == {"start", "ignore", "fork", "raw", "poll", "show", "read", "feed", "look", "close", "reap", "modes", "signals",
        "done"}
PumpType == [pc : Pcs, tty : BOOLEAN, pty : BOOLEAN, ready : SUBSET {"in", "out"}, pending : 0..Chunk,
             open : BOOLEAN, exited : BOOLEAN, broken : BOOLEAN, result : {0, 125, 126}]
ModesType == [term : {"host", "cooked", "relay"}, signals : {"host", "ignored"}]
ProgramType == [state : {"none", "running", "exited", "reaped"}, due : 0..1, extra : 0..Extra,
                made : 0..(Typed + Extra), held : BOOLEAN]
WireType == [left : 0..Typed, in : 0..InRoom, end : BOOLEAN, out : 0..OutRoom, shown : 0..(Typed + Extra)]

LEMMA RelayTypes == Relay!RelayTypeOK <=> /\ pump \in PumpType /\ modes \in ModesType
                                          /\ program \in ProgramType /\ wire \in WireType
BY DEF Relay!RelayTypeOK, PumpType, ModesType, ProgramType, WireType, Pcs

\* A pump with other values in some of its fields is one.
LEMMA PumpSet ==
  ASSUME pump \in PumpType
  PROVE  /\ \A pc \in Pcs :
              [pump EXCEPT !.pc = pc] \in PumpType
         /\ \A pending \in 0..Chunk :
              [pump EXCEPT !.pending = pending] \in PumpType
         /\ \A pc \in Pcs, ready \in SUBSET {"in", "out"} :
              [pump EXCEPT !.pc = pc, !.ready = ready] \in PumpType
         /\ \A pc \in Pcs, result \in {0, 125, 126} :
              [pump EXCEPT !.pc = pc, !.result = result] \in PumpType
         /\ \A pc \in Pcs, broken \in BOOLEAN :
              [pump EXCEPT !.pc = pc, !.broken = broken] \in PumpType
         /\ \A pc \in Pcs, pending \in 0..Chunk :
              [pump EXCEPT !.pc = pc, !.pending = pending] \in PumpType
         /\ \A pc \in Pcs, pending \in 0..Chunk, open \in BOOLEAN :
              [pump EXCEPT !.pc = pc, !.pending = pending, !.open = open] \in PumpType
         /\ \A exited \in BOOLEAN, pc \in Pcs :
              [pump EXCEPT !.exited = exited, !.pc = pc] \in PumpType
<1>1. \A q \in PumpType, pc \in Pcs : [q EXCEPT !.pc = pc] \in PumpType
  BY DEF PumpType
<1>2. \A q \in PumpType, ready \in SUBSET {"in", "out"} : [q EXCEPT !.ready = ready] \in PumpType
  BY DEF PumpType
<1>3. \A q \in PumpType, pending \in 0..Chunk : [q EXCEPT !.pending = pending] \in PumpType
  BY DEF PumpType
<1>4. \A q \in PumpType, open \in BOOLEAN : [q EXCEPT !.open = open] \in PumpType
  BY DEF PumpType
<1>5. \A q \in PumpType, exited \in BOOLEAN : [q EXCEPT !.exited = exited] \in PumpType
  BY DEF PumpType
<1>6. \A q \in PumpType, broken \in BOOLEAN : [q EXCEPT !.broken = broken] \in PumpType
  BY DEF PumpType
<1>7. \A q \in PumpType, result \in {0, 125, 126} : [q EXCEPT !.result = result] \in PumpType
  BY DEF PumpType
<1> QED BY <1>1, <1>2, <1>3, <1>4, <1>5, <1>6, <1>7, Zenon

\* So is a program.
LEMMA ProgramSet ==
  ASSUME program \in ProgramType
  PROVE  /\ \A state \in {"none", "running", "exited", "reaped"} :
              [program EXCEPT !.state = state] \in ProgramType
         /\ \A due \in 0..1 :
              [program EXCEPT !.due = due] \in ProgramType
         /\ \A due \in 0..1, extra \in 0..Extra :
              [program EXCEPT !.due = due, !.extra = extra] \in ProgramType
         /\ \A due \in 0..1, made \in 0..(Typed + Extra) :
              [program EXCEPT !.due = due, !.made = made] \in ProgramType
         /\ \A state \in {"none", "running", "exited", "reaped"}, held \in BOOLEAN :
              [program EXCEPT !.state = state, !.held = held] \in ProgramType
<1>1. \A q \in ProgramType, state \in {"none", "running", "exited", "reaped"} : [q EXCEPT !.state = state] \in ProgramType
  BY DEF ProgramType
<1>2. \A q \in ProgramType, due \in 0..1 : [q EXCEPT !.due = due] \in ProgramType
  BY DEF ProgramType
<1>3. \A q \in ProgramType, extra \in 0..Extra : [q EXCEPT !.extra = extra] \in ProgramType
  BY DEF ProgramType
<1>4. \A q \in ProgramType, made \in 0..(Typed + Extra) : [q EXCEPT !.made = made] \in ProgramType
  BY DEF ProgramType
<1>5. \A q \in ProgramType, held \in BOOLEAN : [q EXCEPT !.held = held] \in ProgramType
  BY DEF ProgramType
<1> QED BY <1>1, <1>2, <1>3, <1>4, <1>5, Zenon

\* And the bytes on the way.
LEMMA WireSet ==
  ASSUME wire \in WireType
  PROVE  /\ \A left \in 0..Typed :
              [wire EXCEPT !.left = left] \in WireType
         /\ \A in \in 0..InRoom :
              [wire EXCEPT !.in = in] \in WireType
         /\ \A end \in BOOLEAN :
              [wire EXCEPT !.end = end] \in WireType
         /\ \A out \in 0..OutRoom :
              [wire EXCEPT !.out = out] \in WireType
         /\ \A out \in 0..OutRoom, shown \in 0..(Typed + Extra) :
              [wire EXCEPT !.out = out, !.shown = shown] \in WireType
<1>1. \A q \in WireType, left \in 0..Typed : [q EXCEPT !.left = left] \in WireType
  BY DEF WireType
<1>2. \A q \in WireType, in \in 0..InRoom : [q EXCEPT !.in = in] \in WireType
  BY DEF WireType
<1>3. \A q \in WireType, end \in BOOLEAN : [q EXCEPT !.end = end] \in WireType
  BY DEF WireType
<1>4. \A q \in WireType, out \in 0..OutRoom : [q EXCEPT !.out = out] \in WireType
  BY DEF WireType
<1>5. \A q \in WireType, shown \in 0..(Typed + Extra) : [q EXCEPT !.shown = shown] \in WireType
  BY DEF WireType
<1> QED BY <1>1, <1>2, <1>3, <1>4, <1>5, Zenon

Pumping == {"raw", "poll", "show", "read", "feed", "look", "close"}

\* Where the parent is says what became of the modes and of the program.
RelayPhase ==
  /\ pump.pc \in {"start", "signals", "done"} => modes.term = "host"
  /\ modes.signals = IF pump.pc \in {"start", "ignore", "done"} THEN "host" ELSE "ignored"
  /\ pump.pc \in {"start", "ignore", "fork"} => program.state = "none" /\ ~pump.exited
  /\ pump.pc \in Pumping => /\ program.state \in {"running", "exited", "reaped"}
                            /\ pump.exited <=> program.state = "reaped"
  /\ pump.pc = "reap" => program.state \in {"running", "exited"}
  /\ pump.pc \in {"modes", "signals", "done"} => program.state \in {"none", "reaped"}

\* Every byte that was typed is answered at most once, and shown at most once.
RelayBytes ==
  /\ pump.pc # "feed" => pump.pending = 0
  /\ pump.pc \in {"show", "read"} /\ "in" \in pump.ready => pump.open
  /\ wire.left + (IF pump.open THEN pump.pending ELSE 0) + wire.in
       + program.due + program.extra + program.made <= Typed + Extra
  /\ wire.shown + wire.out = program.made

RelayGood == Relay!RelayTypeOK /\ RelayPhase /\ RelayBytes

LEMMA RelayStarts == Relay!RelayInit \/ Relay!RelayIdle => RelayGood
<1> SUFFICES ASSUME Relay!RelayInit \/ Relay!RelayIdle PROVE RelayGood
  OBVIOUS
<1>1. \E t, p \in BOOLEAN : pump = [pc |-> "start", tty |-> t, pty |-> p, ready |-> {}, pending |-> 0,
                                 open |-> TRUE, exited |-> FALSE, broken |-> FALSE, result |-> 0]
  <2>1. CASE Relay!RelayInit
    <3>1. PICK call \in Relay!Calls : pump = [Relay!PumpIdle EXCEPT !.tty = call.tty, !.pty = call.pty]
      BY <2>1 DEF Relay!RelayInit
    <3>2. pump = [pc |-> "start", tty |-> call.tty, pty |-> call.pty, ready |-> {}, pending |-> 0,
                  open |-> TRUE, exited |-> FALSE, broken |-> FALSE, result |-> 0]
      BY <3>1 DEF Relay!PumpIdle
    <3> QED BY <3>2 DEF Relay!Calls
  <2>2. CASE Relay!RelayIdle
    BY <2>2 DEF Relay!RelayIdle, Relay!PumpIdle
  <2> QED BY <2>1, <2>2
<1>2. PICK t \in BOOLEAN, p \in BOOLEAN :
        pump = [pc |-> "start", tty |-> t, pty |-> p, ready |-> {}, pending |-> 0,
                open |-> TRUE, exited |-> FALSE, broken |-> FALSE, result |-> 0]
  BY <1>1
<1>4. /\ modes = [term |-> "host", signals |-> "host"]
      /\ program = [state |-> "none", due |-> 0, extra |-> Extra, made |-> 0, held |-> FALSE]
      /\ wire = [left |-> Typed, in |-> 0, end |-> FALSE, out |-> 0, shown |-> 0]
  BY DEF Relay!RelayInit, Relay!RelayIdle
<1>5. Relay!RelayTypeOK
  <2>1. pump \in PumpType
    BY <1>2, RelayAssumption DEF PumpType, Pcs
  <2>2. modes \in ModesType
    BY <1>4 DEF ModesType
  <2>3. program \in ProgramType
    BY <1>4, RelayAssumption DEF ProgramType
  <2>4. wire \in WireType
    BY <1>4, RelayAssumption DEF WireType
  <2> QED BY <2>1, <2>2, <2>3, <2>4, RelayTypes
<1>6. RelayPhase
  BY <1>2, <1>4 DEF RelayPhase, Pumping
<1>7. RelayBytes
  <2>1. pump.pc = "start" /\ pump.pending = 0 /\ pump.ready = {}
    BY <1>2
  <2>2. wire.left = Typed /\ wire.in = 0 /\ wire.out = 0 /\ wire.shown = 0
    BY <1>4
  <2>3. program.due = 0 /\ program.extra = Extra /\ program.made = 0
    BY <1>4
  <2> QED BY <2>1, <2>2, <2>3, RelayAssumption DEF RelayBytes
<1> QED BY <1>5, <1>6, <1>7 DEF RelayGood

\* A step leaves every field of the four in its set.
LEMMA RelayTyped == RelayGood /\ Relay!RelayNext => Relay!RelayTypeOK'
<1> SUFFICES ASSUME RelayGood, Relay!RelayNext
             PROVE  pump' \in PumpType /\ modes' \in ModesType /\ program' \in ProgramType /\ wire' \in WireType
  BY DEF Relay!RelayTypeOK, PumpType, ModesType, ProgramType, WireType, Pcs
<1>t. pump \in PumpType /\ modes \in ModesType /\ program \in ProgramType /\ wire \in WireType
  BY RelayTypes DEF RelayGood
<1>b. RelayBytes
  BY DEF RelayGood
<1>c. /\ "modes" \in Pcs /\ "raw" \in Pcs /\ "reap" \in Pcs /\ "read" \in Pcs
      /\ "look" \in Pcs /\ "feed" \in Pcs /\ "close" \in Pcs
  BY DEF Pcs
<1>1. CASE Relay!NoTerminal
  BY <1>1, <1>t, PumpSet DEF Relay!NoTerminal, Pcs
<1>2. CASE Relay!Prepare
  <2>1. pump' \in PumpType
    BY <1>2, <1>t, PumpSet DEF Relay!Prepare, Relay!To, Pcs
  <2>2. modes' = [modes EXCEPT !.term = "cooked"] \/ modes' = modes
    BY <1>2 DEF Relay!Prepare
  <2>3. modes' \in ModesType
    BY <2>2, <1>t DEF ModesType
  <2> QED BY <1>2, <1>t, <2>1, <2>3 DEF Relay!Prepare
<1>3. CASE Relay!IgnoreSignals
  <2>1. modes' \in ModesType
    BY <1>3, <1>t DEF Relay!IgnoreSignals, ModesType
  <2> QED BY <1>3, <2>1, <1>t, PumpSet DEF Relay!IgnoreSignals, Relay!To, Pcs
<1>4. CASE Relay!Fork
  <2>1. program' \in ProgramType
    BY <1>4, <1>t, ProgramSet DEF Relay!Fork
  <2>2. \/ pump' = [pump EXCEPT !.pc = "modes", !.result = 126]
        \/ pump' = [pump EXCEPT !.pc = "raw"]
        \/ pump' = [pump EXCEPT !.pc = "reap"]
    BY <1>4 DEF Relay!Fork, Relay!To
  <2>3. pump' \in PumpType
    <3>1. /\ [pump EXCEPT !.pc = "modes", !.result = 126] \in PumpType
          /\ [pump EXCEPT !.pc = "raw"] \in PumpType
          /\ [pump EXCEPT !.pc = "reap"] \in PumpType
      BY <1>c, <1>t, PumpSet
    <3> QED BY <2>2, <3>1
  <2> QED BY <1>4, <1>t, <2>1, <2>3 DEF Relay!Fork
<1>5. CASE Relay!Raw
  <2>1. pump' \in PumpType
    BY <1>5, <1>t, PumpSet DEF Relay!Raw, Relay!To, Pcs
  <2>2. modes' = [modes EXCEPT !.term = "relay"] \/ modes' = modes
    BY <1>5 DEF Relay!Raw
  <2>3. modes' \in ModesType
    BY <2>2, <1>t DEF ModesType
  <2> QED BY <1>5, <1>t, <2>1, <2>3 DEF Relay!Raw
<1>6. CASE Relay!Poll
  <2> DEFINE found == {d \in {"out", "in"} : IF d = "out" THEN wire.out > 0 \/ Relay!HungUp
                                             ELSE pump.open /\ (wire.left > 0 \/ ~pump.tty)}
  <2>1. found \in SUBSET {"in", "out"}
    OBVIOUS
  <2>2. pump' = [pump EXCEPT !.pc = "show", !.ready = found]
    BY <1>6 DEF Relay!Poll
  <2> HIDE DEF found
  <2>3. pump' \in PumpType
    BY <2>1, <2>2, <1>t, PumpSet DEF Pcs
  <2> QED BY <1>6, <1>t, <2>3 DEF Relay!Poll
<1>7. CASE Relay!Show
  <2> DEFINE n == Relay!Least(Chunk, wire.out)
  <2>1. /\ n \in Nat /\ wire.out - n \in 0..OutRoom /\ wire.shown + n \in 0..(Typed + Extra)
    BY <1>t, <1>b, RelayAssumption DEF Relay!Least, WireType, ProgramType, RelayBytes
  <2>2. wire' = IF "out" \notin pump.ready THEN wire ELSE [wire EXCEPT !.out = @ - n, !.shown = @ + n]
    BY <1>7 DEF Relay!Show
  <2>3. \/ pump' = [pump EXCEPT !.pc = "read"]
        \/ pump' = [pump EXCEPT !.pc = "close"]
        \/ pump' = [pump EXCEPT !.pc = "close", !.broken = TRUE]
    BY <1>7 DEF Relay!Show, Relay!To
  <2> HIDE DEF n
  <2>4. wire' \in WireType
    BY <2>1, <2>2, <1>t, WireSet
  <2>5. pump' \in PumpType
    <3>1. /\ [pump EXCEPT !.pc = "read"] \in PumpType
          /\ [pump EXCEPT !.pc = "close"] \in PumpType
          /\ [pump EXCEPT !.pc = "close", !.broken = TRUE] \in PumpType
      BY <1>c, <1>t, PumpSet
    <3> QED BY <2>3, <3>1
  <2> QED BY <1>7, <1>t, <2>4, <2>5 DEF Relay!Show
<1>8. CASE Relay!ReadInput
  <2> DEFINE k == Relay!Least(Chunk, wire.left)
  <2>1. /\ k \in 0..Chunk /\ 1 \in 0..Chunk /\ wire.left - k \in 0..Typed
    BY <1>t, RelayAssumption DEF Relay!Least, WireType
  <2>2. wire' = wire \/ wire' = [wire EXCEPT !.left = @ - k]
    BY <1>8 DEF Relay!ReadInput
  <2>3. \/ pump' = [pump EXCEPT !.pc = "look"]
        \/ pump' = [pump EXCEPT !.pc = "feed", !.pending = k]
        \/ pump' = [pump EXCEPT !.pc = "feed", !.pending = 1, !.open = FALSE]
    BY <1>8 DEF Relay!ReadInput, Relay!To
  <2> HIDE DEF k
  <2>4. wire' \in WireType
    BY <2>1, <2>2, <1>t, WireSet
  <2>5. pump' \in PumpType
    <3>1. /\ [pump EXCEPT !.pc = "look"] \in PumpType
          /\ [pump EXCEPT !.pc = "feed", !.pending = k] \in PumpType
          /\ [pump EXCEPT !.pc = "feed", !.pending = 1, !.open = FALSE] \in PumpType
      BY <2>1, <1>c, <1>t, PumpSet
    <3> QED BY <2>3, <3>1
  <2> QED BY <1>8, <1>t, <2>4, <2>5 DEF Relay!ReadInput
<1>9. CASE Relay!Feed
  <2>1. /\ 0 \in 0..Chunk /\ (pump.pending > 0 => pump.pending - 1 \in 0..Chunk)
        /\ (wire.in < InRoom => wire.in + 1 \in 0..InRoom)
    BY <1>t, RelayAssumption DEF PumpType, WireType
  <2>2. \/ wire' = wire
        \/ wire.in < InRoom /\ wire' = [wire EXCEPT !.in = @ + 1]
        \/ wire' = [wire EXCEPT !.end = TRUE]
    BY <1>9 DEF Relay!Feed
  <2>3. \/ pump' = [pump EXCEPT !.pc = "look"]
        \/ pump.pending > 0 /\ pump' = [pump EXCEPT !.pending = pump.pending - 1]
        \/ \E pc \in Pcs : pump' = [pump EXCEPT !.pc = pc, !.pending = 0]
    <3>1. "close" \in Pcs /\ "look" \in Pcs
      BY DEF Pcs
    <3>2. (IF pump.open THEN "close" ELSE "look") \in Pcs
      BY <3>1
    <3> QED BY <1>9, <3>2 DEF Relay!Feed, Relay!To
  <2>4. wire' \in WireType
    BY <2>1, <2>2, <1>t, WireSet
  <2>5. pump' \in PumpType
    <3>1. /\ [pump EXCEPT !.pc = "look"] \in PumpType
          /\ pump.pending > 0 => [pump EXCEPT !.pending = pump.pending - 1] \in PumpType
          /\ \A pc \in Pcs : [pump EXCEPT !.pc = pc, !.pending = 0] \in PumpType
      BY <2>1, <1>c, <1>t, PumpSet
    <3> QED BY <2>3, <3>1
  <2> QED BY <1>9, <1>t, <2>4, <2>5 DEF Relay!Feed
<1>10. CASE Relay!Look
  <2> DEFINE ended == pump.exited \/ program.state = "exited"
             next == IF ended /\ pump.ready = {} THEN "close" ELSE "poll"
  <2>1. ended \in BOOLEAN /\ next \in Pcs
    BY <1>t DEF PumpType, Pcs
  <2>2. /\ pump' = [pump EXCEPT !.exited = ended, !.pc = next]
        /\ program' = program \/ program' = [program EXCEPT !.state = "reaped"]
    BY <1>10 DEF Relay!Look
  <2> HIDE DEF ended, next
  <2>3. pump' \in PumpType
    BY <2>1, <2>2, <1>t, PumpSet
  <2>4. program' \in ProgramType
    BY <2>2, <1>t, ProgramSet
  <2> QED BY <1>10, <1>t, <2>3, <2>4 DEF Relay!Look
<1>11. CASE Relay!Close
  <2>1. 0 \in 0..1 /\ 0 \in 0..Extra /\ 0 \in 0..InRoom
    BY RelayAssumption
  <2>2. pump' \in PumpType
    BY <1>11, <1>t, PumpSet DEF Relay!Close, Relay!To, Pcs
  <2> QED BY <1>11, <1>t, ProgramSet, WireSet, <2>1, <2>2 DEF Relay!Close
<1>12. CASE Relay!Reap
  BY <1>12, <1>t, PumpSet, ProgramSet DEF Relay!Reap, Relay!To, Pcs
<1>13. CASE Relay!RestoreModes
  BY <1>13, <1>t, PumpSet DEF Relay!RestoreModes, Relay!To, Pcs, ModesType
<1>14. CASE Relay!RestoreSignals
  BY <1>14, <1>t, PumpSet DEF Relay!RestoreSignals, Relay!To, Pcs, ModesType
<1>15. CASE Relay!ProgramReads
  <2>1. 1 \in 0..1 /\ (wire.in > 0 => wire.in - 1 \in 0..InRoom)
    BY <1>t, RelayAssumption DEF WireType
  <2> QED BY <1>15, <2>1, <1>t, ProgramSet, WireSet DEF Relay!ProgramReads
<1>16. CASE Relay!ProgramStarts
  <2>1. 1 \in 0..1 /\ (program.extra > 0 => program.extra - 1 \in 0..Extra)
    BY <1>t, RelayAssumption DEF ProgramType
  <2> QED BY <1>16, <2>1, <1>t, ProgramSet DEF Relay!ProgramStarts
<1>17. CASE Relay!ProgramWrites
  <2>1. /\ program.due > 0 => program.due - 1 \in 0..1 /\ program.made + 1 \in 0..(Typed + Extra)
        /\ wire.out < OutRoom => wire.out + 1 \in 0..OutRoom
    BY <1>t, <1>b, RelayAssumption DEF ProgramType, WireType, PumpType, RelayBytes
  <2> QED BY <1>17, <2>1, <1>t, ProgramSet, WireSet DEF Relay!ProgramWrites
<1>18. CASE Relay!ProgramEnds
  <2>1. PICK held \in MayLeave : program' = [program EXCEPT !.state = "exited", !.held = held]
    BY <1>18 DEF Relay!ProgramEnds
  <2>2. held \in BOOLEAN
    BY RelayAssumption
  <2> QED BY <1>18, <2>1, <2>2, <1>t, ProgramSet DEF Relay!ProgramEnds
<1>d. CASE Relay!RelayDone
  BY <1>d, <1>t DEF Relay!RelayDone, Relay!relayVars
<1> QED BY <1>1, <1>2, <1>3, <1>4, <1>5, <1>6, <1>7, <1>8, <1>9, <1>10, <1>11, <1>12, <1>13, <1>14, <1>15, <1>16, <1>17, <1>18, <1>d DEF Relay!RelayNext, Relay!Parent, Relay!Program

\* What the pump's steps leave alone.
LEMMA ShowMoves ==
  ASSUME pump \in PumpType, Relay!Show
  PROVE  /\ pump.pc = "show" /\ pump'.pc \in {"read", "close"}
         /\ pump'.exited = pump.exited /\ pump'.open = pump.open
         /\ pump'.pending = pump.pending /\ pump'.ready = pump.ready
<1>1. \/ pump' = [pump EXCEPT !.pc = "read"]
      \/ pump' = [pump EXCEPT !.pc = "close"]
      \/ pump' = [pump EXCEPT !.pc = "close", !.broken = TRUE]
  BY DEF Relay!Show, Relay!To
<1>2. pump.pc = "show"
  BY DEF Relay!Show, Relay!At
<1>3. CASE pump' = [pump EXCEPT !.pc = "read"]
  BY <1>2, <1>3 DEF PumpType
<1>4. CASE pump' = [pump EXCEPT !.pc = "close"]
  BY <1>2, <1>4 DEF PumpType
<1>5. CASE pump' = [pump EXCEPT !.pc = "close", !.broken = TRUE]
  BY <1>2, <1>5 DEF PumpType
<1> QED BY <1>1, <1>3, <1>4, <1>5

LEMMA ReadMoves ==
  ASSUME pump \in PumpType, Relay!ReadInput
  PROVE  /\ pump.pc = "read" /\ pump'.exited = pump.exited
         /\ LET k == Relay!Least(Chunk, wire.left) IN
            \/ /\ pump'.pc = "look" /\ pump'.open = pump.open /\ pump'.pending = pump.pending
               /\ wire' = wire
            \/ /\ pump'.pc = "feed" /\ pump'.open = pump.open /\ pump'.pending = k
               /\ "in" \in pump.ready /\ wire' = [wire EXCEPT !.left = @ - k]
            \/ pump'.pc = "feed" /\ pump'.open = FALSE /\ pump'.pending = 1 /\ wire' = wire
<1> DEFINE k == Relay!Least(Chunk, wire.left)
<1>1. \/ pump' = [pump EXCEPT !.pc = "look"] /\ wire' = wire
      \/ /\ pump' = [pump EXCEPT !.pc = "feed", !.pending = k] /\ "in" \in pump.ready
         /\ wire' = [wire EXCEPT !.left = @ - k]
      \/ pump' = [pump EXCEPT !.pc = "feed", !.pending = 1, !.open = FALSE] /\ wire' = wire
  BY DEF Relay!ReadInput, Relay!To
<1>2. pump.pc = "read"
  BY DEF Relay!ReadInput, Relay!At
<1> HIDE DEF k
<1>3. CASE pump' = [pump EXCEPT !.pc = "look"] /\ wire' = wire
  <2>1. /\ pump'.pc = "look" /\ pump'.open = pump.open /\ pump'.pending = pump.pending
        /\ pump'.exited = pump.exited
    BY <1>3 DEF PumpType
  <2> QED BY <1>2, <1>3, <2>1 DEF k
<1>4. CASE /\ pump' = [pump EXCEPT !.pc = "feed", !.pending = k] /\ "in" \in pump.ready
           /\ wire' = [wire EXCEPT !.left = @ - k]
  <2>1. /\ pump'.pc = "feed" /\ pump'.open = pump.open /\ pump'.pending = k
        /\ pump'.exited = pump.exited
    BY <1>4 DEF PumpType
  <2> QED BY <1>2, <1>4, <2>1 DEF k
<1>5. CASE pump' = [pump EXCEPT !.pc = "feed", !.pending = 1, !.open = FALSE] /\ wire' = wire
  <2>1. /\ pump'.pc = "feed" /\ pump'.open = FALSE /\ pump'.pending = 1
        /\ pump'.exited = pump.exited
    BY <1>5 DEF PumpType
  <2> QED BY <1>2, <1>5, <2>1 DEF k
<1> QED BY <1>1, <1>3, <1>4, <1>5

LEMMA FeedMoves ==
  ASSUME pump \in PumpType, Relay!Feed
  PROVE  /\ pump.pc = "feed" /\ pump'.exited = pump.exited /\ pump'.open = pump.open
         /\ \/ pump'.pc = "look" /\ pump.pending = 0 /\ pump'.pending = 0 /\ wire' = wire
            \/ /\ pump'.pc = "feed" /\ pump.pending > 0 /\ pump'.pending = pump.pending - 1
               /\ wire' = IF pump.open THEN [wire EXCEPT !.in = @ + 1] ELSE [wire EXCEPT !.end = TRUE]
            \/ pump'.pc \in {"close", "look"} /\ pump'.pending = 0 /\ wire' = wire
<1>1. \/ pump' = [pump EXCEPT !.pc = "look"] /\ pump.pending = 0 /\ wire' = wire
      \/ /\ pump' = [pump EXCEPT !.pending = @ - 1] /\ pump.pending > 0
         /\ wire' = IF pump.open THEN [wire EXCEPT !.in = @ + 1] ELSE [wire EXCEPT !.end = TRUE]
      \/ pump' = [pump EXCEPT !.pc = IF pump.open THEN "close" ELSE "look", !.pending = 0] /\ wire' = wire
  BY DEF Relay!Feed, Relay!To
<1>2. pump.pc = "feed"
  BY DEF Relay!Feed, Relay!At
<1>3. CASE pump' = [pump EXCEPT !.pc = "look"] /\ pump.pending = 0 /\ wire' = wire
  BY <1>2, <1>3 DEF PumpType
<1>4. CASE /\ pump' = [pump EXCEPT !.pending = @ - 1] /\ pump.pending > 0
           /\ wire' = IF pump.open THEN [wire EXCEPT !.in = @ + 1] ELSE [wire EXCEPT !.end = TRUE]
  <2>1. /\ pump'.pc = "feed" /\ pump'.exited = pump.exited /\ pump'.open = pump.open
        /\ pump'.pending = pump.pending - 1
    BY <1>2, <1>4 DEF PumpType
  <2> QED BY <1>2, <1>4, <2>1
<1>5. CASE pump' = [pump EXCEPT !.pc = IF pump.open THEN "close" ELSE "look", !.pending = 0] /\ wire' = wire
  <2>1. /\ pump'.pc \in {"close", "look"} /\ pump'.exited = pump.exited /\ pump'.open = pump.open
        /\ pump'.pending = 0
    BY <1>5 DEF PumpType
  <2> QED BY <1>2, <1>5, <2>1
<1> QED BY <1>1, <1>3, <1>4, <1>5

\* It leaves the parent, the modes and the program in step.
LEMMA RelayPhased == RelayGood /\ Relay!RelayNext => RelayPhase'
<1> SUFFICES ASSUME RelayGood, Relay!RelayNext PROVE RelayPhase'
  OBVIOUS
<1>t. pump \in PumpType /\ modes \in ModesType /\ program \in ProgramType
  BY RelayTypes DEF RelayGood
<1>b. RelayPhase
  BY DEF RelayGood
<1> USE <1>t, <1>b DEF RelayPhase, Pumping, PumpType, ModesType, ProgramType, Pcs, Relay!At, Relay!To, Relay!Running
<1>1. CASE Relay!NoTerminal
  BY <1>1 DEF Relay!NoTerminal
<1>2. CASE Relay!Prepare
  BY <1>2 DEF Relay!Prepare
<1>3. CASE Relay!IgnoreSignals
  BY <1>3 DEF Relay!IgnoreSignals
<1>4. CASE Relay!Fork
  <2>1. CASE pump' = [pump EXCEPT !.pc = "modes", !.result = 126] /\ UNCHANGED program
    BY <1>4, <2>1 DEF Relay!Fork
  <2>2. CASE program' = [program EXCEPT !.state = "running"] /\ Relay!To(IF pump.pty THEN "raw" ELSE "reap")
    BY <1>4, <2>2 DEF Relay!Fork
  <2> QED BY <1>4, <2>1, <2>2 DEF Relay!Fork
<1>5. CASE Relay!Raw
  BY <1>5 DEF Relay!Raw
<1>6. CASE Relay!Poll
  BY <1>6 DEF Relay!Poll
<1>7. CASE Relay!Show
  <2>1. UNCHANGED <<modes, program>>
    BY <1>7 DEF Relay!Show
  <2> QED BY <1>7, <2>1, ShowMoves
<1>8. CASE Relay!ReadInput
  <2>1. UNCHANGED <<modes, program>>
    BY <1>8 DEF Relay!ReadInput
  <2> QED BY <1>8, <2>1, ReadMoves
<1>9. CASE Relay!Feed
  <2>1. UNCHANGED <<modes, program>>
    BY <1>9 DEF Relay!Feed
  <2> QED BY <1>9, <2>1, FeedMoves
<1>10. CASE Relay!Look
  <2>1. /\ UNCHANGED modes /\ pump.pc = "look" /\ pump'.pc \in {"poll", "close"}
        /\ pump'.exited = (pump.exited \/ program.state = "exited")
        /\ program'.state = IF pump'.exited THEN "reaped" ELSE program.state
    BY <1>10 DEF Relay!Look
  <2> QED BY <2>1
<1>11. CASE Relay!Close
  BY <1>11 DEF Relay!Close
<1>12. CASE Relay!Reap
  BY <1>12 DEF Relay!Reap
<1>13. CASE Relay!RestoreModes
  BY <1>13 DEF Relay!RestoreModes
<1>14. CASE Relay!RestoreSignals
  BY <1>14 DEF Relay!RestoreSignals
<1>15. CASE Relay!ProgramReads
  BY <1>15 DEF Relay!ProgramReads
<1>16. CASE Relay!ProgramStarts
  BY <1>16 DEF Relay!ProgramStarts
<1>17. CASE Relay!ProgramWrites
  BY <1>17 DEF Relay!ProgramWrites
<1>18. CASE Relay!ProgramEnds
  BY <1>18 DEF Relay!ProgramEnds
<1>d. CASE Relay!RelayDone
  BY <1>d DEF Relay!RelayDone, Relay!relayVars
<1> QED BY <1>1, <1>2, <1>3, <1>4, <1>5, <1>6, <1>7, <1>8, <1>9, <1>10, <1>11, <1>12, <1>13, <1>14, <1>15, <1>16, <1>17, <1>18, <1>d DEF Relay!RelayNext, Relay!Parent, Relay!Program

\* It counts no byte twice.
LEMMA RelayCounted == RelayGood /\ Relay!RelayNext => RelayBytes'
<1> SUFFICES ASSUME RelayGood, Relay!RelayNext PROVE RelayBytes'
  OBVIOUS
<1>t. pump \in PumpType /\ program \in ProgramType /\ wire \in WireType
  BY RelayTypes DEF RelayGood
<1>b. RelayBytes
  BY DEF RelayGood
<1> USE <1>t, <1>b, RelayAssumption DEF RelayBytes, PumpType, ProgramType, WireType, Pcs, Relay!At, Relay!To
<1>1. CASE Relay!NoTerminal
  BY <1>1 DEF Relay!NoTerminal
<1>2. CASE Relay!Prepare
  BY <1>2 DEF Relay!Prepare
<1>3. CASE Relay!IgnoreSignals
  BY <1>3 DEF Relay!IgnoreSignals
<1>4. CASE Relay!Fork
  <2>1. CASE pump' = [pump EXCEPT !.pc = "modes", !.result = 126] /\ UNCHANGED program
    BY <1>4, <2>1 DEF Relay!Fork
  <2>2. CASE program' = [program EXCEPT !.state = "running"] /\ Relay!To(IF pump.pty THEN "raw" ELSE "reap")
    BY <1>4, <2>2 DEF Relay!Fork
  <2> QED BY <1>4, <2>1, <2>2 DEF Relay!Fork
<1>5. CASE Relay!Raw
  BY <1>5 DEF Relay!Raw
<1>6. CASE Relay!Poll
  BY <1>6 DEF Relay!Poll
<1>7. CASE Relay!Show
  <2> DEFINE n == Relay!Least(Chunk, wire.out)
  <2>1. n \in Nat
    BY DEF Relay!Least
  <2>2. program' = program
    BY <1>7 DEF Relay!Show
  <2>3. \/ wire' = wire
        \/ wire' = [wire EXCEPT !.out = @ - n, !.shown = @ + n]
    BY <1>7 DEF Relay!Show
  <2> HIDE DEF n
  <2>4. CASE wire' = wire
    BY <1>7, <2>2, <2>4, ShowMoves
  <2>5. CASE wire' = [wire EXCEPT !.out = @ - n, !.shown = @ + n]
    <3>1. /\ wire'.left = wire.left /\ wire'.in = wire.in
          /\ wire'.shown = wire.shown + n /\ wire'.out = wire.out - n
      BY <2>5
    <3> QED BY <1>7, <2>1, <2>2, <3>1, ShowMoves
  <2> QED BY <2>3, <2>4, <2>5
<1>8. CASE Relay!ReadInput
  <2> DEFINE k == Relay!Least(Chunk, wire.left)
  <2>1. k \in 0..wire.left
    BY DEF Relay!Least
  <2>2. program' = program
    BY <1>8 DEF Relay!ReadInput
  <2>3. /\ pump.pc = "read"
        /\ \/ /\ pump'.pc = "look" /\ pump'.open = pump.open /\ pump'.pending = pump.pending
              /\ wire' = wire
           \/ /\ pump'.pc = "feed" /\ pump'.open = pump.open /\ pump'.pending = k
              /\ "in" \in pump.ready /\ wire' = [wire EXCEPT !.left = @ - k]
           \/ pump'.pc = "feed" /\ pump'.open = FALSE /\ pump'.pending = 1 /\ wire' = wire
    BY <1>8, ReadMoves
  <2> HIDE DEF k
  <2>4. CASE wire' = wire /\ pump'.pc = "look" /\ pump'.open = pump.open /\ pump'.pending = pump.pending
    BY <2>2, <2>3, <2>4
  <2>5. CASE /\ pump'.pc = "feed" /\ pump'.open = pump.open /\ pump'.pending = k
             /\ "in" \in pump.ready /\ wire' = [wire EXCEPT !.left = @ - k]
    <3>1. /\ wire'.left = wire.left - k /\ wire'.in = wire.in
          /\ wire'.shown = wire.shown /\ wire'.out = wire.out
      BY <2>5
    <3> QED BY <2>1, <2>2, <2>3, <2>5, <3>1
  <2>6. CASE pump'.pc = "feed" /\ pump'.open = FALSE /\ pump'.pending = 1 /\ wire' = wire
    BY <2>2, <2>3, <2>6
  <2> QED BY <2>3, <2>4, <2>5, <2>6
<1>9. CASE Relay!Feed
  <2>1. program' = program
    BY <1>9 DEF Relay!Feed
  <2>2. /\ wire'.left = wire.left /\ wire'.shown = wire.shown /\ wire'.out = wire.out
        /\ pump.open => wire'.in + pump'.pending <= wire.in + pump.pending
        /\ ~pump.open => wire'.in = wire.in
    BY <1>9, FeedMoves
  <2>3. wire'.in \in Nat /\ pump'.pending \in Nat
    BY <1>9, FeedMoves
  <2> QED BY <1>9, <2>1, <2>2, <2>3, FeedMoves
<1>10. CASE Relay!Look
  BY <1>10 DEF Relay!Look
<1>11. CASE Relay!Close
  BY <1>11 DEF Relay!Close
<1>12. CASE Relay!Reap
  BY <1>12 DEF Relay!Reap
<1>13. CASE Relay!RestoreModes
  BY <1>13 DEF Relay!RestoreModes
<1>14. CASE Relay!RestoreSignals
  BY <1>14 DEF Relay!RestoreSignals
<1>15. CASE Relay!ProgramReads
  BY <1>15 DEF Relay!ProgramReads
<1>16. CASE Relay!ProgramStarts
  BY <1>16 DEF Relay!ProgramStarts
<1>17. CASE Relay!ProgramWrites
  BY <1>17 DEF Relay!ProgramWrites
<1>18. CASE Relay!ProgramEnds
  BY <1>18 DEF Relay!ProgramEnds
<1>d. CASE Relay!RelayDone
  BY <1>d DEF Relay!RelayDone, Relay!relayVars
<1> QED BY <1>1, <1>2, <1>3, <1>4, <1>5, <1>6, <1>7, <1>8, <1>9, <1>10, <1>11, <1>12, <1>13, <1>14, <1>15, <1>16, <1>17, <1>18, <1>d DEF Relay!RelayNext, Relay!Parent, Relay!Program

LEMMA RelayStep == RelayGood /\ Relay!RelayNext => RelayGood'
BY RelayTyped, RelayPhased, RelayCounted DEF RelayGood

\* What the call promises on its return follows.
LEMMA RelayReturns == RelayGood => Relay!RelayRestores /\ Relay!InterruptsAreTheirs
<1> SUFFICES ASSUME RelayGood PROVE Relay!RelayRestores /\ Relay!InterruptsAreTheirs
  OBVIOUS
<1>1. pump.pc \in Pcs /\ modes \in ModesType
  BY RelayTypes DEF RelayGood, PumpType
<1> QED BY <1>1 DEF RelayGood, RelayPhase, Relay!RelayRestores, Relay!InterruptsAreTheirs, Relay!At, ModesType, Pcs

-----------------------------------------------------------------------------
(* A pipeline: files and pipes are opened, the stages started one after the *)
(* other, everything closed and every stage waited for.                     *)

StageStates == {"none", "forked", "running", "refused", "gone", "reaped"}
Statuses == {0, 3, 127, 130, 137, 141}
StageType == [state : StageStates, ends : SUBSET Pipeline!PipeEnds, left : Nat, status : Statuses]
Results == {1, 126, 127, 3, 130, 137, 141}
LinePcs == {"open", "modes", "ignore", "fork", "report", "close", "kill", "wait", "restore", "release", "done"}
FileNames == Pipeline!All \X {"in", "out"}
LineType == [pc : LinePcs, at : 1..(Stages + 1), failed : BOOLEAN, result : Results,
             held : SUBSET Pipeline!PipeEnds, files : SUBSET FileNames]
PlanType == [Pipeline!All -> [what : Programs, input : BOOLEAN, output : BOOLEAN]]

Launched == {"close", "kill", "wait", "restore", "release", "done"}
State(i) == stage[i].state
Missing(i) == plan[i].what.missing

\* The terminal and the handlers are taken before the first fork, and given back
\* in the other order.
PipeModes ==
  /\ line.pc \in {"open", "modes", "release", "done"} => tty.term = "host"
  /\ line.pc \in {"open", "modes", "ignore", "done"} => tty.signals = "host"
  /\ Pipeline!StagesAreInterrupted
\* The parent's ends and files are closed before it waits.
PipeClosed == line.pc \in Launched \ {"close"} => line.held = {} /\ line.files = {}
\* How far the launch and the waiting came.
PipeLaunch ==
  /\ line.pc \in {"open", "modes", "ignore"} => \A i \in Pipeline!All : State(i) = "none"
  /\ line.pc \in {"open", "fork", "report"} => line.at \in Pipeline!All
  /\ line.pc \in {"fork", "report"} =>
       \A i \in Pipeline!All : /\ i < line.at => State(i) \in {"running", "gone"}
                               /\ i > line.at => State(i) = "none"
  /\ line.pc = "fork" => State(line.at) = "none"
  /\ line.pc = "report" => State(line.at) \in {"forked", "running", "refused", "gone"}
  /\ line.pc \in {"close", "kill"} => \A i \in Pipeline!All : State(i) \in {"none", "running", "refused", "gone"}
  /\ line.pc = "kill" => line.at = 1
  /\ line.pc = "wait" =>
       \A i \in Pipeline!All : State(i) \in IF i < line.at THEN {"reaped"} ELSE {"none", "running", "refused", "gone"}
  /\ line.pc \in {"restore", "release", "done"} => \A i \in Pipeline!All : State(i) \in {"none", "reaped"}
  /\ \A i, j \in Pipeline!All : i < j /\ State(j) # "none" => State(i) # "none"
\* What became of a stage says what its command was.
PipeStatus ==
  \A i \in Pipeline!All :
    /\ State(i) \in {"running", "gone"} => ~Missing(i)
    /\ State(i) = "refused" => Missing(i) /\ stage[i].status = 127
    /\ State(i) \in {"gone", "reaped"} /\ i = Stages => stage[i].status # 0
\* The result is the launch's until the last stage has been waited for.
PipeResult ==
  /\ line.pc \notin Launched => line.failed
  /\ line.pc \in Launched =>
       /\ line.failed <=> \E i \in Pipeline!All : State(i) = "none" \/ Missing(i)
       /\ (\E i \in Pipeline!All : State(i) # "none" /\ Missing(i)) => line.result = 127
  /\ ~line.failed /\ (line.pc \in {"restore", "release", "done"} \/ (line.pc = "wait" /\ line.at > Stages)) =>
       line.result = stage[Stages].status

PipeGood == /\ plan \in PlanType /\ Pipeline!PipelineTypeOK
            /\ PipeModes /\ PipeClosed /\ PipeLaunch /\ PipeStatus /\ PipeResult

LEMMA PipeTypes == Pipeline!PipelineTypeOK <=>
  /\ line \in LineType /\ stage \in [Pipeline!All -> StageType] /\ pipe \in [Pipeline!Joints -> 0..PipeRoom]
  /\ tty \in [term : {"host", "cooked"}, signals : {"host", "ignored"}]
BY DEF Pipeline!PipelineTypeOK, LineType, LinePcs, Results, FileNames, StageType, StageStates, Statuses

LEMMA PipeStarts == Pipeline!PipelineInit => PipeGood
<1> SUFFICES ASSUME Pipeline!PipelineInit PROVE PipeGood
  OBVIOUS
<1>1. /\ line = [pc |-> "open", at |-> 1, failed |-> TRUE, result |-> 126, held |-> {}, files |-> {}]
      /\ stage = [i \in Pipeline!All |-> [state |-> "none", ends |-> {}, left |-> 0, status |-> 0]]
      /\ pipe = [j \in Pipeline!Joints |-> 0] /\ tty = [term |-> "host", signals |-> "host"]
  BY DEF Pipeline!PipelineInit, Pipeline!Nothing, Pipeline!NoStage
<1>2. plan \in PlanType
  BY DEF Pipeline!PipelineInit, PlanType
<1>3. Pipeline!PipelineTypeOK
  <2>1. line \in LineType
    BY <1>1, PipelineAssumption DEF LineType, LinePcs, Results
  <2>2. [state |-> "none", ends |-> {}, left |-> 0, status |-> 0] \in StageType
    BY DEF StageType, StageStates, Statuses
  <2>3. pipe \in [Pipeline!Joints -> 0..PipeRoom]
    BY <1>1, PipelineAssumption
  <2> QED BY <1>1, <2>1, <2>2, <2>3, PipeTypes
<1>4. 1 \in Pipeline!All
  BY PipelineAssumption DEF Pipeline!All
<1>5. \A i \in Pipeline!All : State(i) = "none"
  BY <1>1 DEF State
<1>6. line.pc = "open" /\ line.at = 1 /\ line.failed /\ tty.term = "host" /\ tty.signals = "host"
  BY <1>1
<1>7. PipeModes /\ PipeClosed
  BY <1>6 DEF PipeModes, PipeClosed, Launched, Pipeline!StagesAreInterrupted
<1>8. PipeLaunch /\ PipeStatus
  BY <1>4, <1>5, <1>6 DEF PipeLaunch, PipeStatus, Launched
<1>9. PipeResult
  BY <1>6 DEF PipeResult, Launched
<1> QED BY <1>2, <1>3, <1>7, <1>8, <1>9 DEF PipeGood

\* What a step of the children, or a key, may make of a stage.
Moves(i) ==
  \/ stage'[i].state = State(i) /\ stage'[i].status = stage[i].status
  \/ State(i) = "forked" /\ Missing(i) /\ stage'[i].state = "refused" /\ stage'[i].status = 127
  \/ State(i) = "forked" /\ ~Missing(i) /\ stage'[i].state = "running"
  \/ State(i) = "running" /\ stage'[i].state = "gone" /\ (i = Stages => stage'[i].status # 0)

\* A stage with other values in some of its fields is one.
LEMMA StageSet ==
  \A s \in StageType, state \in StageStates :
    /\ [s EXCEPT !.state = state] \in StageType
    /\ \A left \in Nat : [s EXCEPT !.left = left] \in StageType
    /\ \A ends \in SUBSET Pipeline!PipeEnds : [s EXCEPT !.state = state, !.ends = ends] \in StageType
<1>1. \A s \in StageType, state \in StageStates : [s EXCEPT !.state = state] \in StageType
  BY DEF StageType
<1>2. \A s \in StageType, left \in Nat : [s EXCEPT !.left = left] \in StageType
  BY DEF StageType
<1>3. \A s \in StageType, ends \in SUBSET Pipeline!PipeEnds : [s EXCEPT !.ends = ends] \in StageType
  BY DEF StageType
<1> QED BY <1>1, <1>2, <1>3, Zenon

LEMMA StageEnds ==
  ASSUME NEW s \in StageType, NEW state \in StageStates, NEW status \in Statuses
  PROVE  [s EXCEPT !.state = state, !.status = status] \in StageType
<1>1. \A t \in StageType : [t EXCEPT !.state = state] \in StageType
  BY DEF StageType
<1>2. \A t \in StageType : [t EXCEPT !.status = status] \in StageType
  BY DEF StageType
<1> QED BY <1>1, <1>2, Zenon

LEMMA OneMoves ==
  ASSUME stage \in [Pipeline!All -> StageType], NEW i \in Pipeline!All, NEW v \in StageType,
         stage' = [stage EXCEPT ![i] = v],
         \/ v.state = State(i) /\ v.status = stage[i].status
         \/ State(i) = "forked" /\ Missing(i) /\ v.state = "refused" /\ v.status = 127
         \/ State(i) = "forked" /\ ~Missing(i) /\ v.state = "running"
         \/ State(i) = "running" /\ v.state = "gone" /\ (i = Stages => v.status # 0)
  PROVE  /\ stage' \in [Pipeline!All -> StageType]
         /\ \A j \in Pipeline!All : Moves(j)
<1>1. stage'[i] = v /\ \A j \in Pipeline!All \ {i} : stage'[j] = stage[j]
  OBVIOUS
<1>2. stage' \in [Pipeline!All -> StageType]
  OBVIOUS
<1>3. Moves(i)
  BY <1>1 DEF Moves
<1>4. \A j \in Pipeline!All \ {i} : Moves(j)
  BY <1>1 DEF Moves, State
<1> QED BY <1>2, <1>3, <1>4

LEMMA ChildMoves ==
  ASSUME PipeGood, Pipeline!Child \/ Pipeline!Interrupt
  PROVE  /\ UNCHANGED <<plan, line, tty>> /\ Pipeline!PipelineTypeOK'
         /\ \A i \in Pipeline!All : Moves(i)
<1>t. /\ stage \in [Pipeline!All -> StageType] /\ pipe \in [Pipeline!Joints -> 0..PipeRoom]
      /\ line \in LineType /\ tty \in [term : {"host", "cooked"}, signals : {"host", "ignored"}]
  BY PipeTypes DEF PipeGood
<1>s. SUFFICES /\ UNCHANGED <<plan, line, tty>> /\ stage' \in [Pipeline!All -> StageType]
               /\ pipe' \in [Pipeline!Joints -> 0..PipeRoom] /\ \A i \in Pipeline!All : Moves(i)
  <2>1. /\ line' \in LineType /\ stage' \in [Pipeline!All -> StageType] /\ pipe' \in [Pipeline!Joints -> 0..PipeRoom]
        /\ tty' \in [term : {"host", "cooked"}, signals : {"host", "ignored"}]
    BY <1>t
  <2>2. Pipeline!PipelineTypeOK'
    BY <2>1 DEF Pipeline!PipelineTypeOK, LineType, LinePcs, Results, FileNames, StageType, StageStates, Statuses
  <2> QED BY <2>2
<1>g. "gone" \in StageStates /\ "refused" \in StageStates
  BY DEF StageStates
<1>1. CASE Pipeline!Interrupt
  <2>1. stage' = [i \in Pipeline!All |-> IF Pipeline!Runs(i) THEN [stage[i] EXCEPT !.state = "gone", !.status = 130]
                                         ELSE stage[i]]
    BY <1>1 DEF Pipeline!Interrupt
  <2>2. ASSUME NEW i \in Pipeline!All PROVE stage'[i] \in StageType /\ Moves(i)
    <3>1. stage[i] \in StageType
      BY <1>t
    <3>2. CASE Pipeline!Runs(i)
      <4> DEFINE n == 130
      <4>0. n \in Statuses /\ n # 0
        BY DEF Statuses
      <4>1. stage'[i] = [stage[i] EXCEPT !.state = "gone", !.status = n]
        BY <2>1, <3>2
      <4> HIDE DEF n
      <4>2. stage'[i] \in StageType
        BY <1>g, <3>1, <4>0, <4>1, StageEnds, Zenon
      <4>3. stage'[i].state = "gone" /\ stage'[i].status # 0
        BY <3>1, <4>0, <4>1 DEF StageType
      <4> QED BY <3>2, <4>2, <4>3 DEF Moves, Pipeline!Runs, State
    <3>3. CASE ~Pipeline!Runs(i)
      BY <2>1, <3>1, <3>3 DEF Moves, State
    <3> QED BY <3>2, <3>3
  <2>3. stage' \in [Pipeline!All -> StageType]
    <3>1. stage' = [i \in Pipeline!All |-> stage'[i]]
      BY <2>1
    <3> QED BY <2>2, <3>1
  <2> QED BY <1>1, <1>t, <2>2, <2>3 DEF Pipeline!Interrupt
<1>2. CASE Pipeline!Child
  <2>0. PICK i \in Pipeline!All : \/ Pipeline!Become(i) \/ Pipeline!Copies(i) \/ Pipeline!WritesPipe(i)
                                  \/ Pipeline!WritesOut(i) \/ Pipeline!Ends(i)
    BY <1>2 DEF Pipeline!Child
  <2>t. stage[i] \in StageType /\ i \in 1..Stages /\ Stages \in Nat /\ PipeRoom \in Nat
    BY <1>t, PipelineAssumption DEF Pipeline!All
  <2>1. CASE Pipeline!Become(i)
    <3>1. CASE Missing(i)
      <4> DEFINE n == 127
                 v == [stage[i] EXCEPT !.state = "refused", !.status = n]
      <4>0. n \in Statuses /\ n = 127
        BY DEF Statuses
      <4>3. stage' = [stage EXCEPT ![i] = v] /\ State(i) = "forked" /\ UNCHANGED <<plan, line, pipe, tty>>
        BY <2>1, <3>1 DEF Pipeline!Become, State, Missing
      <4> HIDE DEF n
      <4>1. v \in StageType
        BY <1>g, <2>t, <4>0, StageEnds, Zenon
      <4>2. v.state = "refused" /\ v.status = 127
        BY <2>t, <4>0 DEF StageType
      <4> HIDE DEF v
      <4> QED BY <1>t, <3>1, <4>1, <4>2, <4>3, OneMoves
    <3>2. CASE ~Missing(i)
      <4> DEFINE v == [stage[i] EXCEPT !.state = "running", !.ends = Pipeline!Own(i)]
      <4>0. Pipeline!Own(i) \in SUBSET Pipeline!PipeEnds
        BY DEF Pipeline!Own
      <4>1. v \in StageType
        BY <2>t, <4>0, StageSet DEF StageStates
      <4>2. v.state = "running"
        BY <2>t DEF StageType
      <4>3. stage' = [stage EXCEPT ![i] = v] /\ State(i) = "forked" /\ UNCHANGED <<plan, line, pipe, tty>>
        BY <2>1, <3>2 DEF Pipeline!Become, State, Missing
      <4> HIDE DEF v
      <4> QED BY <1>t, <3>2, <4>1, <4>2, <4>3, OneMoves
    <3> QED BY <3>1, <3>2
  <2>2. CASE Pipeline!Copies(i)
    <3> DEFINE v == [stage[i] EXCEPT !.left = 1]
    <3>1. v \in StageType /\ v.state = State(i) /\ v.status = stage[i].status
      BY <2>t DEF StageType, State
    <3>2. stage' = [stage EXCEPT ![i] = v] /\ UNCHANGED <<plan, line, tty>>
      BY <2>2 DEF Pipeline!Copies
    <3>3. pipe' \in [Pipeline!Joints -> 0..PipeRoom]
      <4>1. i - 1 \in Pipeline!Joints
        BY <2>t, <2>2 DEF Pipeline!Copies, Pipeline!Joints
      <4>2. pipe[i - 1] > 0 /\ pipe[i - 1] \in 0..PipeRoom /\ pipe' = [pipe EXCEPT ![i - 1] = pipe[i - 1] - 1]
        BY <1>t, <2>2, <4>1 DEF Pipeline!Copies
      <4>3. pipe[i - 1] - 1 \in 0..PipeRoom
        BY <2>t, <4>2
      <4> QED BY <1>t, <4>1, <4>2, <4>3
    <3> HIDE DEF v
    <3> QED BY <1>t, <3>1, <3>2, <3>3, OneMoves
  <2>3. CASE Pipeline!WritesPipe(i)
    <3>1. CASE Pipeline!Holds(<<i, "read">>)
      <4> DEFINE v == [stage[i] EXCEPT !.left = @ - 1]
      <4>1. stage[i].left > 0 /\ i \in Pipeline!Joints
        BY <2>t, <2>3 DEF Pipeline!WritesPipe, Pipeline!Joints
      <4>2. v \in StageType /\ v.state = State(i) /\ v.status = stage[i].status
        BY <2>t, <4>1 DEF StageType, State
      <4>3. stage' = [stage EXCEPT ![i] = v] /\ UNCHANGED <<plan, line, tty>>
        BY <2>3, <3>1 DEF Pipeline!WritesPipe
      <4>4. pipe' \in [Pipeline!Joints -> 0..PipeRoom]
        <5>1. pipe[i] < PipeRoom /\ pipe[i] \in 0..PipeRoom /\ pipe' = [pipe EXCEPT ![i] = pipe[i] + 1]
          BY <1>t, <2>3, <3>1, <4>1 DEF Pipeline!WritesPipe
        <5>2. pipe[i] + 1 \in 0..PipeRoom
          BY <2>t, <5>1
        <5> QED BY <1>t, <4>1, <5>1, <5>2
      <4> HIDE DEF v
      <4> QED BY <1>t, <4>2, <4>3, <4>4, OneMoves
    <3>2. CASE ~Pipeline!Holds(<<i, "read">>)
      <4> DEFINE n == 141
                 v == [stage[i] EXCEPT !.state = "gone", !.status = n]
      <4>0. n \in Statuses /\ n # 0
        BY DEF Statuses
      <4>3. /\ stage' = [stage EXCEPT ![i].state = "gone", ![i].status = n]
            /\ State(i) = "running" /\ UNCHANGED <<plan, line, pipe, tty>>
        BY <2>3, <3>2 DEF Pipeline!WritesPipe, Pipeline!Runs, State
      <4> HIDE DEF n
      <4>1. v \in StageType
        BY <1>g, <2>t, <4>0, StageEnds, Zenon
      <4>2. v.state = "gone" /\ v.status = n
        BY <2>t DEF StageType
      <4>4. stage' = [stage EXCEPT ![i] = v]
        BY <1>t, <4>3
      <4>5. i = Stages => v.status # 0
        BY <4>0, <4>2
      <4>6. State(i) = "running" /\ UNCHANGED <<plan, line, pipe, tty>>
        BY <4>3
      <4> HIDE DEF v
      <4> QED BY <1>t, <4>1, <4>2, <4>4, <4>5, <4>6, OneMoves
    <3> QED BY <3>1, <3>2
  <2>4. CASE Pipeline!WritesOut(i)
    <3> DEFINE v == [stage[i] EXCEPT !.left = 0]
    <3>1. v \in StageType /\ v.state = State(i) /\ v.status = stage[i].status
      BY <2>t DEF StageType, State
    <3>2. stage' = [stage EXCEPT ![i] = v] /\ UNCHANGED <<plan, line, pipe, tty>>
      BY <2>4 DEF Pipeline!WritesOut
    <3> HIDE DEF v
    <3> QED BY <1>t, <3>1, <3>2, OneMoves
  <2>5. CASE Pipeline!Ends(i)
    <3> DEFINE n == IF i = Stages THEN 3 ELSE 0
               v == [stage[i] EXCEPT !.state = "gone", !.status = n]
    <3>1. n \in {0, 3} /\ (i = Stages => n # 0)
      OBVIOUS
    <3>2. /\ stage' = [stage EXCEPT ![i].state = "gone", ![i].status = n]
          /\ State(i) = "running" /\ UNCHANGED <<plan, line, pipe, tty>>
      BY <2>5 DEF Pipeline!Ends, Pipeline!Runs, State
    <3> HIDE DEF n
    <3>3. v \in StageType
      <4>1. n \in Statuses
        BY <3>1 DEF Statuses
      <4> QED BY <1>g, <2>t, <4>1, StageEnds, Zenon
    <3>4. v.state = "gone" /\ v.status = n
      BY <2>t DEF StageType
    <3>5. stage' = [stage EXCEPT ![i] = v]
      BY <1>t, <3>2
    <3> HIDE DEF v
    <3> QED BY <1>t, <3>1, <3>2, <3>3, <3>4, <3>5, OneMoves
  <2> QED BY <2>0, <2>1, <2>2, <2>3, <2>4, <2>5
<1> QED BY <1>1, <1>2

LEMMA PipeChildren ==
  ASSUME PipeGood, Pipeline!Child \/ Pipeline!Interrupt
  PROVE  PipeGood'
<1>1. /\ UNCHANGED <<plan, line, tty>> /\ Pipeline!PipelineTypeOK'
      /\ \A i \in Pipeline!All : Moves(i)
  BY ChildMoves
<1>2. plan' \in PlanType /\ PipeModes' /\ PipeClosed'
  BY <1>1 DEF PipeGood, PipeModes, PipeClosed, Pipeline!StagesAreInterrupted
<1>3. line \in LineType /\ Stages \in Nat \ {0} /\ stage \in [Pipeline!All -> StageType]
  BY PipeTypes, PipelineAssumption DEF PipeGood
<1>4. \A i \in Pipeline!All : Missing(i)' = Missing(i)
  BY <1>1 DEF Missing
<1>5. \A i \in Pipeline!All : State(i) = "none" <=> State(i)' = "none"
  BY <1>1 DEF Moves, State
<1>6. PipeLaunch'
  <2> USE <1>1, <1>3 DEF PipeGood
  <2>1. PipeLaunch
    OBVIOUS
  <2> QED BY <2>1, <1>5 DEF PipeLaunch, Moves, State, LineType, LinePcs, Pipeline!All
<1>7. PipeStatus'
  BY <1>1, <1>4 DEF PipeGood, PipeStatus, Moves, State
<1>8. PipeResult'
  <2>1. PipeResult /\ PipeLaunch
    BY DEF PipeGood
  <2>2. line' = line
    BY <1>1
  <2>3. line.pc \notin Launched => line.failed
    BY <2>1 DEF PipeResult
  <2>4. line.pc \in Launched =>
          /\ line.failed <=> \E i \in Pipeline!All : State(i)' = "none" \/ Missing(i)'
          /\ (\E i \in Pipeline!All : State(i)' # "none" /\ Missing(i)') => line.result = 127
    BY <1>4, <1>5, <2>1 DEF PipeResult
  <2>5. line.pc \in {"restore", "release", "done"} \/ (line.pc = "wait" /\ line.at > Stages) =>
          stage'[Stages].status = stage[Stages].status
    <3>1. Stages \in Pipeline!All /\ Moves(Stages)
      BY <1>1, <1>3 DEF Pipeline!All
    <3> QED BY <2>1, <3>1, <1>3 DEF PipeLaunch, Moves
  <2> QED BY <2>1, <2>2, <2>3, <2>4, <2>5 DEF PipeResult, State, Missing
<1> QED BY <1>1, <1>2, <1>6, <1>7, <1>8 DEF PipeGood

\* The parent with other values in some of its fields is one.
LEMMA LineSet ==
  ASSUME line \in LineType
  PROVE  /\ \A pc \in LinePcs :
              [line EXCEPT !.pc = pc] \in LineType
         /\ \A pc \in LinePcs, at \in 1..(Stages + 1) :
              [line EXCEPT !.pc = pc, !.at = at] \in LineType
         /\ \A files \in SUBSET FileNames, held \in SUBSET Pipeline!PipeEnds, at \in 1..(Stages + 1), pc \in LinePcs :
              [line EXCEPT !.files = files, !.held = held, !.at = at, !.pc = pc] \in LineType
         /\ \A result \in Results, pc \in LinePcs, files \in SUBSET FileNames :
              [line EXCEPT !.result = result, !.pc = pc, !.files = files] \in LineType
         /\ \A files \in SUBSET FileNames, pc \in LinePcs :
              [line EXCEPT !.files = files, !.pc = pc] \in LineType
         /\ \A pc \in LinePcs, result \in Results :
              [line EXCEPT !.pc = pc, !.result = result] \in LineType
         /\ \A at \in 1..(Stages + 1), pc \in LinePcs, failed \in BOOLEAN :
              [line EXCEPT !.at = at, !.pc = pc, !.failed = failed] \in LineType
         /\ \A held \in SUBSET Pipeline!PipeEnds, files \in SUBSET FileNames, at \in 1..(Stages + 1), pc \in LinePcs :
              [line EXCEPT !.held = held, !.files = files, !.at = at, !.pc = pc] \in LineType
         /\ \A at \in 1..(Stages + 1), result \in Results :
              [line EXCEPT !.at = at, !.result = result] \in LineType
<1>1. \A q \in LineType, pc \in LinePcs : [q EXCEPT !.pc = pc] \in LineType
  BY DEF LineType
<1>2. \A q \in LineType, at \in 1..(Stages + 1) : [q EXCEPT !.at = at] \in LineType
  BY DEF LineType
<1>3. \A q \in LineType, failed \in BOOLEAN : [q EXCEPT !.failed = failed] \in LineType
  BY DEF LineType
<1>4. \A q \in LineType, result \in Results : [q EXCEPT !.result = result] \in LineType
  BY DEF LineType
<1>5. \A q \in LineType, held \in SUBSET Pipeline!PipeEnds : [q EXCEPT !.held = held] \in LineType
  BY DEF LineType
<1>6. \A q \in LineType, files \in SUBSET FileNames : [q EXCEPT !.files = files] \in LineType
  BY DEF LineType
<1> QED BY <1>1, <1>2, <1>3, <1>4, <1>5, <1>6, Zenon

\* The fields of the parent that a step of the launch changes.
LEMMA OpenMoves ==
  ASSUME PipeGood, Pipeline!Open
  PROVE  /\ line.pc = "open" /\ line'.failed = line.failed /\ UNCHANGED <<plan, stage, pipe, tty>>
         /\ \/ line'.pc = "open" /\ line'.at \in Pipeline!All
            \/ line'.pc \in {"modes", "close"}
         /\ line' \in LineType
<1> DEFINE i == line.at
           files == (IF plan[i].input THEN {<<i, "in">>} ELSE {}) \cup (IF plan[i].output THEN {<<i, "out">>} ELSE {})
           first == IF Pipeline!Cardinality(files) = 2 THEN {<<i, "in">>} ELSE {}
           ends == {e \in Pipeline!PipeEnds : e[1] = i}
<1>1. /\ line.pc = "open" /\ line \in LineType /\ i \in Pipeline!All /\ Stages \in Nat
      /\ UNCHANGED <<plan, stage, pipe, tty>>
  BY PipeTypes, PipelineAssumption DEF PipeGood, PipeLaunch, Pipeline!Open, Pipeline!LineAt
<1>2. \/ line' = [line EXCEPT !.files = @ \cup files, !.held = @ \cup ends, !.at = @ + 1,
                              !.pc = IF i = Stages THEN "modes" ELSE "open"]
      \/ line' = [line EXCEPT !.result = 1, !.pc = "close", !.files = @ \cup first]
      \/ line' = [line EXCEPT !.files = @ \cup files, !.pc = "close"]
  BY DEF Pipeline!Open
<1>3. /\ line.files \cup files \in SUBSET FileNames /\ line.files \cup first \in SUBSET FileNames
      /\ line.held \cup ends \in SUBSET Pipeline!PipeEnds /\ line.at + 1 \in 1..(Stages + 1)
      /\ i # Stages => line.at + 1 \in Pipeline!All
  BY <1>1 DEF LineType, FileNames, Pipeline!All
<1>4. 1 \in Results /\ "close" \in LinePcs /\ (IF i = Stages THEN "modes" ELSE "open") \in LinePcs
  BY DEF Results, LinePcs
<1> DEFINE g == line.files \cup files
           h == line.held \cup ends
           a == line.at + 1
           q == IF i = Stages THEN "modes" ELSE "open"
           f == line.files \cup first
<1>5. CASE line' = [line EXCEPT !.files = g, !.held = h, !.at = a, !.pc = q]
  <2>1. g \in SUBSET FileNames /\ h \in SUBSET Pipeline!PipeEnds /\ a \in 1..(Stages + 1) /\ q \in LinePcs
    BY <1>3, <1>4
  <2>2. q = "modes" \/ (q = "open" /\ a \in Pipeline!All)
    BY <1>3
  <2> HIDE DEF g, h, a, q
  <2>3. line' \in LineType
    BY <1>1, <1>5, <2>1, LineSet
  <2>4. line'.pc = q /\ line'.at = a /\ line'.failed = line.failed
    BY <1>1, <1>5 DEF LineType
  <2> QED BY <1>1, <2>2, <2>3, <2>4
<1>6. CASE line' = [line EXCEPT !.result = 1, !.pc = "close", !.files = f]
  <2>1. f \in SUBSET FileNames
    BY <1>3
  <2> HIDE DEF f
  <2>2. line' \in LineType
    BY <1>1, <1>4, <1>6, <2>1, LineSet
  <2>3. line'.pc = "close" /\ line'.failed = line.failed
    BY <1>1, <1>6 DEF LineType
  <2> QED BY <1>1, <2>2, <2>3
<1>7. CASE line' = [line EXCEPT !.files = g, !.pc = "close"]
  <2>1. g \in SUBSET FileNames
    BY <1>3
  <2> HIDE DEF g
  <2>2. line' \in LineType
    BY <1>1, <1>4, <1>7, <2>1, LineSet
  <2>3. line'.pc = "close" /\ line'.failed = line.failed
    BY <1>1, <1>7 DEF LineType
  <2> QED BY <1>1, <2>2, <2>3
<1> QED BY <1>2, <1>5, <1>6, <1>7

\* Everything is opened before the first fork, and the terminal is taken last.
LEMMA PipeOpens ==
  ASSUME PipeGood, Pipeline!Open \/ Pipeline!Modes \/ Pipeline!Ignore
  PROVE  PipeGood'
<1>t. /\ plan \in PlanType /\ line \in LineType /\ stage \in [Pipeline!All -> StageType]
      /\ pipe \in [Pipeline!Joints -> 0..PipeRoom]
      /\ tty \in [term : {"host", "cooked"}, signals : {"host", "ignored"}]
  BY PipeTypes DEF PipeGood
<1>a. 1 \in Pipeline!All /\ 1 \in 1..(Stages + 1)
  BY PipelineAssumption DEF Pipeline!All
<1>1. /\ line.pc \in {"open", "modes", "ignore"} /\ UNCHANGED <<plan, stage, pipe>>
      /\ line' \in LineType /\ line'.failed = line.failed
      /\ line'.pc \in {"open", "modes", "ignore", "close", "fork"}
      /\ line'.pc \in {"open", "fork"} => line'.at \in Pipeline!All
      /\ line'.pc = "fork" => line'.at = 1
  <2>1. CASE Pipeline!Open
    BY <2>1, OpenMoves
  <2>2. CASE Pipeline!Modes
    <3>1. line' = [line EXCEPT !.pc = "ignore"] /\ line.pc = "modes" /\ UNCHANGED <<plan, stage, pipe>>
      BY <2>2 DEF Pipeline!Modes, Pipeline!LineTo, Pipeline!LineAt
    <3>2. line' \in LineType
      BY <1>t, <3>1, LineSet DEF LinePcs
    <3>3. line'.pc = "ignore" /\ line'.failed = line.failed
      BY <1>t, <3>1 DEF LineType
    <3> QED BY <3>1, <3>2, <3>3
  <2>3. CASE Pipeline!Ignore
    <3>1. line' = [line EXCEPT !.pc = "fork", !.at = 1] /\ line.pc = "ignore" /\ UNCHANGED <<plan, stage, pipe>>
      BY <2>3 DEF Pipeline!Ignore, Pipeline!LineAt
    <3>2. line' \in LineType
      BY <1>t, <1>a, <3>1, LineSet DEF LinePcs
    <3>3. line'.pc = "fork" /\ line'.at = 1 /\ line'.failed = line.failed
      BY <1>t, <3>1 DEF LineType
    <3> QED BY <1>a, <3>1, <3>2, <3>3
  <2> QED BY <2>1, <2>2, <2>3
<1>2. tty' \in [term : {"host", "cooked"}, signals : {"host", "ignored"}] /\ PipeModes'
  <2>0. PipeModes
    BY DEF PipeGood
  <2>1. CASE Pipeline!Open
    BY <1>t, <2>0, <2>1, OpenMoves DEF PipeModes, Pipeline!StagesAreInterrupted
  <2>2. CASE Pipeline!Modes
    <3>1. line'.pc = "ignore" /\ line.pc = "modes"
      BY <1>t, <2>2 DEF LineType, Pipeline!Modes, Pipeline!LineTo, Pipeline!LineAt
    <3>2. tty' = [tty EXCEPT !.term = "cooked"] \/ tty' = tty
      BY <2>2 DEF Pipeline!Modes
    <3> QED BY <1>t, <2>0, <3>1, <3>2 DEF PipeModes, Pipeline!StagesAreInterrupted
  <2>3. CASE Pipeline!Ignore
    <3>1. line'.pc = "fork"
      BY <1>t, <2>3 DEF LineType, Pipeline!Ignore
    <3>2. tty' = [tty EXCEPT !.signals = "ignored"]
      BY <2>3 DEF Pipeline!Ignore
    <3> QED BY <1>t, <3>1, <3>2 DEF PipeModes, Pipeline!StagesAreInterrupted
  <2> QED BY <2>1, <2>2, <2>3
<1>3. Pipeline!PipelineTypeOK'
  <2>1. stage' \in [Pipeline!All -> StageType] /\ pipe' \in [Pipeline!Joints -> 0..PipeRoom]
    BY <1>t, <1>1
  <2> QED BY <1>1, <1>2, <2>1
        DEF Pipeline!PipelineTypeOK, LineType, LinePcs, Results, FileNames, StageType, StageStates, Statuses
<1>4. \A i \in Pipeline!All : State(i)' = "none"
  BY <1>1 DEF PipeGood, PipeLaunch, State
<1>5. PipeClosed' /\ PipeLaunch' /\ PipeStatus'
  <2>1. \A i \in Pipeline!All : ~(i < 1)
    BY PipelineAssumption DEF Pipeline!All
  <2> QED BY <1>1, <1>4, <2>1 DEF PipeClosed, PipeLaunch, PipeStatus, Launched
<1>6. PipeResult'
  <2>1. line'.failed
    BY <1>1 DEF PipeGood, PipeResult, Launched
  <2> QED BY <1>a, <1>4, <2>1 DEF PipeResult
<1>7. plan' \in PlanType
  BY <1>t, <1>1
<1> QED BY <1>2, <1>3, <1>5, <1>6, <1>7 DEF PipeGood

\* A stage is forked once the one before it has reported.
LEMMA PipeForks ==
  ASSUME PipeGood, Pipeline!ForkStage
  PROVE  PipeGood'
<1>t. /\ plan \in PlanType /\ line \in LineType /\ stage \in [Pipeline!All -> StageType]
      /\ pipe \in [Pipeline!Joints -> 0..PipeRoom]
      /\ tty \in [term : {"host", "cooked"}, signals : {"host", "ignored"}]
  BY PipeTypes DEF PipeGood
<1>i. PICK i : i = line.at
  OBVIOUS
<1>1. line.pc = "fork" /\ i = line.at /\ i \in Pipeline!All /\ UNCHANGED <<plan, pipe, tty>> /\ State(i) = "none" /\ line.failed
  BY <1>i DEF PipeGood, PipeLaunch, PipeResult, Launched, Pipeline!ForkStage, Pipeline!LineAt
<1>2. line' \in LineType /\ \E pc \in {"report", "close"} : line' = [line EXCEPT !.pc = pc]
  <2>1. \E pc \in {"report", "close"} : line' = [line EXCEPT !.pc = pc]
    BY DEF Pipeline!ForkStage, Pipeline!LineTo
  <2> QED BY <1>t, <2>1, LineSet DEF LinePcs
<1>3. /\ line'.pc \in {"report", "close"} /\ line'.at = i /\ line'.failed
      /\ line'.held = line.held /\ line'.files = line.files
  BY <1>t, <1>1, <1>2 DEF LineType
<1>4. /\ stage' \in [Pipeline!All -> StageType]
      /\ \A j \in Pipeline!All \ {i} : stage'[j] = stage[j]
      /\ IF line'.pc = "report" THEN stage'[i].state = "forked" ELSE stage' = stage
  <2>1. CASE line'.pc = "report"
    <3> DEFINE v == [state |-> "forked", ends |-> line.held, left |-> plan[i].what.makes, status |-> 0]
    <3>1. stage' = [stage EXCEPT ![i] = v]
      BY <1>t, <1>1, <2>1 DEF Pipeline!ForkStage, Pipeline!LineTo, LineType
    <3>2. plan[i].what \in Programs
      BY <1>t, <1>1 DEF PlanType
    <3>3. plan[i].what.makes \in Nat
      BY <3>2, PipelineAssumption
    <3>4. v \in StageType /\ v.state = "forked"
      BY <1>t, <3>3 DEF StageType, StageStates, Statuses, LineType
    <3> HIDE DEF v
    <3> QED BY <1>t, <1>1, <2>1, <3>1, <3>4
  <2>2. CASE line'.pc = "close"
    <3>1. stage' = stage
      BY <1>t, <2>2 DEF Pipeline!ForkStage, Pipeline!LineTo, LineType
    <3> QED BY <1>t, <2>2, <3>1
  <2> QED BY <1>3, <2>1, <2>2
<1>5. Pipeline!PipelineTypeOK'
  <2>1. pipe' \in [Pipeline!Joints -> 0..PipeRoom] /\ tty' \in [term : {"host", "cooked"}, signals : {"host", "ignored"}]
    BY <1>t, <1>1
  <2> QED BY <1>2, <1>4, <2>1
        DEF Pipeline!PipelineTypeOK, LineType, LinePcs, Results, FileNames, StageType, StageStates, Statuses
<1>6. PipeModes' /\ PipeClosed' /\ plan' \in PlanType
  BY <1>t, <1>1, <1>3 DEF PipeGood, PipeModes, PipeClosed, Launched, Pipeline!StagesAreInterrupted
<1>7. \A j \in Pipeline!All : Missing(j)' = Missing(j)
  BY <1>1 DEF Missing
<1>8. PipeLaunch'
  <2>1. /\ \A j \in Pipeline!All : /\ j < i => State(j) \in {"running", "gone"}
                                   /\ j > i => State(j) = "none"
        /\ \A j, k \in Pipeline!All : j < k /\ State(k) # "none" => State(j) # "none"
    BY <1>1 DEF PipeGood, PipeLaunch
  <2>2. \A j \in Pipeline!All : /\ j < i => State(j)' \in {"running", "gone"}
                                /\ j > i => State(j)' = "none"
    BY <1>1, <1>4, <2>1 DEF State, Pipeline!All
  <2>3. State(i)' = IF line'.pc = "report" THEN "forked" ELSE "none"
    BY <1>1, <1>4 DEF State
  <2>4. \A j, k \in Pipeline!All : j < k /\ State(k)' # "none" => State(j)' # "none"
    BY <1>1, <2>2, <2>3, PipelineAssumption DEF Pipeline!All
  <2>5. \A j \in Pipeline!All : j < i \/ j = i \/ j > i
    BY <1>1, PipelineAssumption DEF Pipeline!All
  <2> QED BY <1>1, <1>3, <2>2, <2>3, <2>4, <2>5 DEF PipeLaunch
<1>9. PipeStatus'
  <2>1. PipeStatus
    BY DEF PipeGood
  <2>2. \A j \in Pipeline!All \ {i} : State(j)' = State(j) /\ stage'[j].status = stage[j].status
    BY <1>4 DEF State
  <2>3. State(i)' \in {"forked", "none"}
    BY <1>1, <1>4 DEF State
  <2> QED BY <1>7, <2>1, <2>2, <2>3 DEF PipeStatus, State, Missing
<1>10. PipeResult'
  <2>1. line'.pc = "close" => stage' = stage
    BY <1>4
  <2>2. \A j \in Pipeline!All : State(j) # "none" => ~Missing(j)
    <3>1. \A j \in Pipeline!All : j < i \/ j = i \/ j > i
      BY <1>1, PipelineAssumption DEF Pipeline!All
    <3> QED BY <1>1, <3>1 DEF PipeGood, PipeLaunch, PipeStatus
  <2> QED BY <1>1, <1>3, <1>7, <2>1, <2>2 DEF PipeResult, State, Missing, Launched
<1> QED BY <1>5, <1>6, <1>8, <1>9, <1>10 DEF PipeGood

\* A stage that could not become its program ends the launch with its result.
LEMMA PipeReports ==
  ASSUME PipeGood, Pipeline!Report
  PROVE  PipeGood'
<1>t. line \in LineType /\ stage \in [Pipeline!All -> StageType] /\ Stages \in Nat \ {0}
  BY PipeTypes, PipelineAssumption DEF PipeGood
<1>i. PICK i : i = line.at
  OBVIOUS
<1>1. /\ line.pc = "report" /\ i = line.at /\ i \in Pipeline!All /\ UNCHANGED <<plan, stage, pipe, tty>>
      /\ State(i) \in {"running", "refused", "gone"} /\ line.failed
  BY <1>i DEF PipeGood, PipeLaunch, PipeResult, Launched, Pipeline!Report, Pipeline!LineAt, State
<1>2. /\ line' \in LineType /\ line'.held = line.held /\ line'.files = line.files
      /\ \/ /\ State(i) = "refused" /\ line'.pc = "close" /\ line'.at = i
            /\ line'.failed /\ line'.result = 127
         \/ State(i) # "refused" /\ i < Stages /\ line'.pc = "fork" /\ line'.at = i + 1 /\ line'.failed
         \/ State(i) # "refused" /\ i = Stages /\ line'.pc = "close" /\ ~line'.failed
  <2>1. CASE State(i) = "refused"
    <3> DEFINE n == stage[i].status
    <3>1. line' = [line EXCEPT !.pc = "close", !.result = n]
      BY <1>1, <2>1 DEF Pipeline!Report, State
    <3>2. n = 127 /\ n \in Results
      BY <1>1, <2>1 DEF PipeGood, PipeStatus, Results
    <3> HIDE DEF n
    <3>3. line' \in LineType
      BY <1>t, <3>1, <3>2, LineSet DEF LinePcs
    <3>4. /\ line'.pc = "close" /\ line'.result = n /\ line'.at = line.at /\ line'.failed = line.failed
          /\ line'.held = line.held /\ line'.files = line.files
      BY <1>t, <3>1 DEF LineType
    <3> QED BY <1>1, <2>1, <3>2, <3>3, <3>4
  <2>2. CASE State(i) # "refused"
    <3> DEFINE a == IF i = Stages THEN 1 ELSE i + 1
               q == IF i = Stages THEN "close" ELSE "fork"
               f == i < Stages
    <3>1. line' = [line EXCEPT !.at = a, !.pc = q, !.failed = f]
      BY <1>1, <2>2 DEF Pipeline!Report, State
    <3>2. a \in 1..(Stages + 1) /\ q \in LinePcs /\ f \in BOOLEAN
      BY <1>t, <1>1 DEF Pipeline!All, LinePcs
    <3>3. \/ i < Stages /\ a = i + 1 /\ q = "fork" /\ f
          \/ i = Stages /\ q = "close" /\ ~f
      BY <1>t, <1>1 DEF Pipeline!All
    <3> HIDE DEF a, q, f
    <3>4. line' \in LineType
      BY <1>t, <3>1, <3>2, LineSet
    <3>5. /\ line'.at = a /\ line'.pc = q /\ line'.failed = f
          /\ line'.held = line.held /\ line'.files = line.files
      BY <1>t, <3>1 DEF LineType
    <3> QED BY <2>2, <3>3, <3>4, <3>5
  <2> QED BY <2>1, <2>2
<1>3. Pipeline!PipelineTypeOK'
  <2>1. /\ stage' \in [Pipeline!All -> StageType] /\ pipe' \in [Pipeline!Joints -> 0..PipeRoom]
        /\ tty' \in [term : {"host", "cooked"}, signals : {"host", "ignored"}]
    BY <1>1, PipeTypes DEF PipeGood
  <2> QED BY <1>2, <2>1
        DEF Pipeline!PipelineTypeOK, LineType, LinePcs, Results, FileNames, StageType, StageStates, Statuses
<1>4. PipeModes' /\ PipeClosed' /\ plan' \in PlanType /\ PipeStatus'
  BY <1>1, <1>2 DEF PipeGood, PipeModes, PipeClosed, PipeStatus, Launched, Pipeline!StagesAreInterrupted, State, Missing
<1>5. \A j \in Pipeline!All : State(j)' = State(j) /\ Missing(j)' = Missing(j)
  BY <1>1 DEF State, Missing
<1>6. \A j \in Pipeline!All : j \in Nat /\ (j < i \/ j = i \/ (j > i /\ i < Stages))
  BY <1>1, PipelineAssumption DEF Pipeline!All
<1>7. /\ \A j \in Pipeline!All : /\ j < i => State(j) \in {"running", "gone"}
                                 /\ j > i => State(j) = "none"
      /\ \A j, k \in Pipeline!All : j < k /\ State(k) # "none" => State(j) # "none"
  BY <1>1 DEF PipeGood, PipeLaunch
<1>8. PipeLaunch'
  <2>1. CASE line'.pc = "close"
    <3>1. \A j \in Pipeline!All : State(j)' \in {"none", "running", "refused", "gone"}
      BY <1>1, <1>5, <1>6, <1>7
    <3> QED BY <1>5, <1>7, <2>1, <3>1 DEF PipeLaunch
  <2>2. CASE line'.pc = "fork"
    <3>1. State(i) \in {"running", "gone"} /\ line'.at = i + 1 /\ i < Stages
      BY <1>1, <1>2, <2>2
    <3>2. i + 1 \in Pipeline!All
      BY <1>1, <1>t, <3>1 DEF Pipeline!All
    <3>3. \A j \in Pipeline!All : /\ j < i + 1 => State(j)' \in {"running", "gone"}
                                  /\ ~(j < i + 1) => State(j)' = "none"
      BY <1>1, <1>5, <1>6, <1>7, <3>1 DEF Pipeline!All
    <3>4. State(i + 1)' = "none" /\ \A j \in Pipeline!All : j > i + 1 => State(j)' = "none"
      <4>1. i + 1 \in Pipeline!All /\ ~(i + 1 < i + 1)
        BY <1>1, <1>6, <3>2
      <4>2. \A j \in Pipeline!All : j > i + 1 => ~(j < i + 1)
        BY <1>6, <1>1 DEF Pipeline!All
      <4> QED BY <3>3, <4>1, <4>2
    <3>5. stage'[line'.at].state = "none" /\ line'.at \in Pipeline!All
      BY <3>1, <3>2, <3>4 DEF State
    <3> QED BY <1>5, <1>7, <2>2, <3>1, <3>3, <3>4, <3>5 DEF PipeLaunch, State
  <2> QED BY <1>2, <2>1, <2>2
<1>9. PipeResult'
  <2>1. \A j \in Pipeline!All : State(j) \in {"running", "gone"} => ~Missing(j)
    BY DEF PipeGood, PipeStatus
  <2>2. \A j \in Pipeline!All \ {i} : State(j) # "none" => ~Missing(j)
    BY <1>6, <1>7, <2>1
  <2>3. CASE State(i) = "refused"
    <3>1. Missing(i)
      BY <1>1, <2>3 DEF PipeGood, PipeStatus
    <3> QED BY <1>1, <1>2, <1>5, <2>3, <3>1 DEF PipeResult, Launched
  <2>4. CASE State(i) # "refused" /\ i < Stages
    <3>1. line'.pc = "fork" /\ line'.failed
      BY <1>t, <1>2, <2>4
    <3> QED BY <3>1 DEF PipeResult, Launched
  <2>5. CASE State(i) # "refused" /\ i = Stages
    <3>1. \A j \in Pipeline!All : State(j) # "none" /\ ~Missing(j)
      BY <1>1, <1>6, <1>7, <2>1, <2>5
    <3> QED BY <1>t, <1>1, <1>2, <1>5, <2>5, <3>1 DEF PipeResult, Launched
  <2> QED BY <1>2, <2>3, <2>4, <2>5
<1> QED BY <1>3, <1>4, <1>8, <1>9 DEF PipeGood

\* What was opened is closed, and the stages of a failed launch are killed, before any is waited for.
LEMMA PipeCloses ==
  ASSUME PipeGood, Pipeline!CloseAll
  PROVE  PipeGood'
<1>t. line \in LineType /\ Stages \in Nat \ {0}
  BY PipeTypes, PipelineAssumption DEF PipeGood
<1>1. line.pc = "close" /\ UNCHANGED <<plan, stage, pipe, tty>>
  BY DEF Pipeline!CloseAll, Pipeline!LineAt
<1>2. /\ line' \in LineType /\ line'.held = {} /\ line'.files = {} /\ line'.at = 1
      /\ line'.pc \in {"kill", "wait"} /\ line'.failed = line.failed /\ line'.result = line.result
  <2> DEFINE q == IF line.failed THEN "kill" ELSE "wait"
  <2>1. line' = [line EXCEPT !.held = {}, !.files = {}, !.at = 1, !.pc = q]
    BY DEF Pipeline!CloseAll
  <2>2. q \in {"kill", "wait"} /\ q \in LinePcs /\ 1 \in 1..(Stages + 1)
    BY <1>t DEF LinePcs
  <2> HIDE DEF q
  <2>3. line' \in LineType
    BY <1>t, <2>1, <2>2, LineSet
  <2>4. /\ line'.held = {} /\ line'.files = {} /\ line'.at = 1 /\ line'.pc = q
        /\ line'.failed = line.failed /\ line'.result = line.result
    BY <1>t, <2>1 DEF LineType
  <2> QED BY <2>2, <2>3, <2>4
<1>3. Pipeline!PipelineTypeOK'
  <2>1. /\ stage' \in [Pipeline!All -> StageType] /\ pipe' \in [Pipeline!Joints -> 0..PipeRoom]
        /\ tty' \in [term : {"host", "cooked"}, signals : {"host", "ignored"}]
    BY <1>1, PipeTypes DEF PipeGood
  <2> QED BY <1>2, <2>1
        DEF Pipeline!PipelineTypeOK, LineType, LinePcs, Results, FileNames, StageType, StageStates, Statuses
<1>4. PipeModes' /\ PipeClosed' /\ plan' \in PlanType /\ PipeStatus'
  BY <1>1, <1>2 DEF PipeGood, PipeModes, PipeClosed, PipeStatus, Launched, Pipeline!StagesAreInterrupted, State, Missing
<1>5. \A j \in Pipeline!All : State(j)' = State(j) /\ Missing(j)' = Missing(j) /\ ~(j < 1)
  BY <1>1, PipelineAssumption DEF State, Missing, Pipeline!All
<1>6. PipeLaunch'
  BY <1>1, <1>2, <1>5 DEF PipeGood, PipeLaunch
<1>7. PipeResult'
  <2>1. /\ line.failed <=> \E j \in Pipeline!All : State(j) = "none" \/ Missing(j)
        /\ (\E j \in Pipeline!All : State(j) # "none" /\ Missing(j)) => line.result = 127
    BY <1>1 DEF PipeGood, PipeResult, Launched
  <2>2. ~(line'.at > Stages)
    BY <1>t, <1>2
  <2> QED BY <1>2, <1>5, <2>1, <2>2 DEF PipeResult, Launched
<1> QED BY <1>3, <1>4, <1>6, <1>7 DEF PipeGood

LEMMA PipeKills ==
  ASSUME PipeGood, Pipeline!Kill
  PROVE  PipeGood'
<1>t. line \in LineType /\ stage \in [Pipeline!All -> StageType] /\ Stages \in Nat \ {0}
  BY PipeTypes, PipelineAssumption DEF PipeGood
<1>1. line.pc = "kill" /\ UNCHANGED <<plan, pipe, tty>>
  BY DEF Pipeline!Kill, Pipeline!LineAt
<1>2. /\ line' \in LineType /\ line'.held = line.held /\ line'.files = line.files /\ line'.at = line.at
      /\ line'.pc = "wait" /\ line'.failed = line.failed /\ line'.result = line.result
  <2>1. line' = [line EXCEPT !.pc = "wait"]
    BY DEF Pipeline!Kill, Pipeline!LineTo
  <2>2. line' \in LineType
    BY <1>t, <2>1, LineSet DEF LinePcs
  <2> QED BY <1>t, <2>1, <2>2 DEF LineType
<1>3. /\ stage' \in [Pipeline!All -> StageType]
      /\ \A i \in Pipeline!All :
           IF State(i) = "running" THEN stage'[i].state = "gone" /\ stage'[i].status # 0 ELSE stage'[i] = stage[i]
  <2> DEFINE n == 137
  <2>1. stage' = [i \in Pipeline!All |-> IF Pipeline!Alive(i) THEN [stage[i] EXCEPT !.state = "gone", !.status = n]
                                         ELSE stage[i]]
    BY DEF Pipeline!Kill
  <2>2. n \in Statuses /\ n # 0 /\ "gone" \in StageStates
    BY DEF Statuses, StageStates
  <2> HIDE DEF n
  <2>3. ASSUME NEW i \in Pipeline!All
        PROVE  /\ stage'[i] \in StageType
               /\ IF State(i) = "running" THEN stage'[i].state = "gone" /\ stage'[i].status # 0
                  ELSE stage'[i] = stage[i]
    <3>0. State(i) \in {"none", "running", "refused", "gone"} /\ stage[i] \in StageType
      BY <1>1, <1>t DEF PipeGood, PipeLaunch
    <3>1. CASE State(i) = "running"
      <4>1. stage'[i] = [stage[i] EXCEPT !.state = "gone", !.status = n]
        BY <2>1, <3>1 DEF Pipeline!Alive, State
      <4>2. stage'[i] \in StageType
        BY <2>2, <3>0, <4>1, StageEnds, Zenon
      <4>3. stage'[i].state = "gone" /\ stage'[i].status = n
        BY <3>0, <4>1 DEF StageType
      <4> QED BY <2>2, <3>1, <4>2, <4>3
    <3>2. CASE State(i) # "running"
      BY <2>1, <3>0, <3>2 DEF Pipeline!Alive, State
    <3> QED BY <3>1, <3>2
  <2>4. stage' = [i \in Pipeline!All |-> stage'[i]]
    BY <2>1
  <2> QED BY <2>3, <2>4
<1>4. Pipeline!PipelineTypeOK'
  <2>1. /\ pipe' \in [Pipeline!Joints -> 0..PipeRoom]
        /\ tty' \in [term : {"host", "cooked"}, signals : {"host", "ignored"}]
    BY <1>1, PipeTypes DEF PipeGood
  <2> QED BY <1>2, <1>3, <2>1
        DEF Pipeline!PipelineTypeOK, LineType, LinePcs, Results, FileNames, StageType, StageStates, Statuses
<1>5. PipeModes' /\ PipeClosed' /\ plan' \in PlanType
  BY <1>1, <1>2 DEF PipeGood, PipeModes, PipeClosed, Launched, Pipeline!StagesAreInterrupted
<1>6. \A j \in Pipeline!All : /\ Missing(j)' = Missing(j) /\ (State(j)' = "none" <=> State(j) = "none")
                              /\ State(j) \in {"none", "running", "refused", "gone"}
                              /\ State(j)' \in {"none", "refused", "gone"}
  BY <1>1, <1>3 DEF PipeGood, PipeLaunch, State, Missing
<1>7. line.at = 1
  BY <1>1 DEF PipeGood, PipeLaunch
<1>8. PipeLaunch'
  <2>1. \A j \in Pipeline!All : ~(j < 1)
    BY PipelineAssumption DEF Pipeline!All
  <2>2. \A i, j \in Pipeline!All : i < j /\ State(j) # "none" => State(i) # "none"
    BY DEF PipeGood, PipeLaunch
  <2>3. \A i, j \in Pipeline!All : i < j /\ State(j)' # "none" => State(i)' # "none"
    BY <1>6, <2>2
  <2> QED BY <1>2, <1>6, <1>7, <2>1, <2>3 DEF PipeLaunch
<1>9. PipeStatus'
  <2>1. PipeStatus
    BY DEF PipeGood
  <2>2. ASSUME NEW i \in Pipeline!All
        PROVE  /\ State(i)' \in {"running", "gone"} => ~Missing(i)'
               /\ State(i)' = "refused" => Missing(i)' /\ stage'[i].status = 127
               /\ State(i)' \in {"gone", "reaped"} /\ i = Stages => stage'[i].status # 0
    <3>1. CASE State(i) = "running"
      BY <1>3, <1>6, <2>1, <3>1 DEF PipeStatus, State
    <3>2. CASE State(i) # "running"
      <4>1. stage'[i] = stage[i] /\ State(i)' = State(i) /\ Missing(i)' = Missing(i)
        BY <1>3, <1>6, <3>2 DEF State
      <4> QED BY <2>1, <4>1 DEF PipeStatus
    <3> QED BY <3>1, <3>2
  <2> QED BY <2>2 DEF PipeStatus
<1>10. PipeResult'
  <2>1. /\ line.failed <=> \E j \in Pipeline!All : State(j) = "none" \/ Missing(j)
        /\ (\E j \in Pipeline!All : State(j) # "none" /\ Missing(j)) => line.result = 127
    BY <1>1 DEF PipeGood, PipeResult, Launched
  <2>2. ~(line'.at > Stages)
    BY <1>t, <1>2, <1>7
  <2> QED BY <1>2, <1>6, <2>1, <2>2 DEF PipeResult, Launched
<1> QED BY <1>4, <1>5, <1>8, <1>9, <1>10 DEF PipeGood

\* Every stage that was started is reaped, in order; the last of them may give the result.
LEMMA PipeWaits ==
  ASSUME PipeGood, Pipeline!Wait
  PROVE  PipeGood'
<1>t. line \in LineType /\ stage \in [Pipeline!All -> StageType] /\ Stages \in Nat \ {0}
  BY PipeTypes, PipelineAssumption DEF PipeGood
<1>i. PICK i : i = line.at
  OBVIOUS
<1>1. /\ line.pc = "wait" /\ UNCHANGED <<plan, pipe, tty>> /\ i = line.at /\ i \in 1..(Stages + 1)
      /\ \A j \in Pipeline!All : State(j) \in IF j < i THEN {"reaped"} ELSE {"none", "running", "refused", "gone"}
      /\ \A j, k \in Pipeline!All : j < k /\ State(k) # "none" => State(j) # "none"
  BY <1>i, <1>t DEF PipeGood, PipeLaunch, LineType, Pipeline!Wait, Pipeline!LineAt
<1>2. /\ line.failed <=> \E j \in Pipeline!All : State(j) = "none" \/ Missing(j)
      /\ (\E j \in Pipeline!All : State(j) # "none" /\ Missing(j)) => line.result = 127
      /\ ~line.failed /\ i > Stages => line.result = stage[Stages].status
  BY <1>1 DEF PipeGood, PipeResult, Launched
<1>3. \A j \in Pipeline!All : j \in 1..Stages /\ Missing(j)' = Missing(j)
  BY <1>1 DEF Pipeline!All, Missing
<1>4. /\ pipe' \in [Pipeline!Joints -> 0..PipeRoom] /\ plan' \in PlanType
      /\ tty' \in [term : {"host", "cooked"}, signals : {"host", "ignored"}]
  BY <1>1, PipeTypes DEF PipeGood
<1>5. PipeStatus /\ PipeModes /\ line.held = {} /\ line.files = {}
  BY <1>1 DEF PipeGood, PipeClosed, Launched
<1>6. CASE i \in Pipeline!Started
  <2>1. /\ i \in Pipeline!All /\ State(i) # "none" /\ ~Pipeline!Alive(i)
        /\ stage' = [stage EXCEPT ![i].state = "reaped"]
    BY <1>1, <1>6 DEF Pipeline!Wait, Pipeline!Started, State
  <2>2. State(i) \in {"refused", "gone"} /\ stage[i] \in StageType /\ i \in 1..Stages
    BY <1>t, <1>1, <1>3, <2>1 DEF Pipeline!Alive, State
  <2>3. /\ stage' \in [Pipeline!All -> StageType] /\ State(i)' = "reaped" /\ stage'[i].status = stage[i].status
        /\ \A j \in Pipeline!All \ {i} : stage'[j] = stage[j]
    <3> DEFINE v == [stage[i] EXCEPT !.state = "reaped"]
    <3>1. stage' = [stage EXCEPT ![i] = v]
      BY <2>1
    <3>2. v \in StageType /\ v.state = "reaped" /\ v.status = stage[i].status
      BY <2>2 DEF StageType, StageStates
    <3> HIDE DEF v
    <3> QED BY <1>t, <2>1, <3>1, <3>2 DEF State
  <2>4. \A j \in Pipeline!All : State(j)' = "none" <=> State(j) = "none"
    BY <2>1, <2>3 DEF State
  <2>5. /\ line' \in LineType /\ line'.pc = "wait" /\ line'.at = i + 1 /\ line'.failed = line.failed
        /\ line'.held = line.held /\ line'.files = line.files
        /\ line'.result = IF ~line.failed /\ i = Stages THEN stage[i].status ELSE line.result
    <3> DEFINE a == i + 1
               n == IF ~line.failed /\ i = Stages THEN stage[i].status ELSE line.result
    <3>1. line' = [line EXCEPT !.at = a, !.result = n]
      BY <1>1, <1>6 DEF Pipeline!Wait
    <3>2. a \in 1..(Stages + 1)
      BY <1>t, <2>2
    <3>3. n \in Results
      <4>1. i = Stages => stage[i].status \in Statuses \ {0}
        BY <1>5, <2>1, <2>2 DEF PipeStatus, StageType
      <4> QED BY <1>t, <4>1 DEF Results, Statuses, LineType
    <3> HIDE DEF a, n
    <3>4. line' \in LineType
      BY <1>t, <3>1, <3>2, <3>3, LineSet
    <3>5. /\ line'.at = a /\ line'.result = n /\ line'.pc = line.pc /\ line'.failed = line.failed
          /\ line'.held = line.held /\ line'.files = line.files
      BY <1>t, <3>1 DEF LineType
    <3> QED BY <1>1, <3>4, <3>5 DEF a, n
  <2>6. Pipeline!PipelineTypeOK'
    BY <1>4, <2>3, <2>5
       DEF Pipeline!PipelineTypeOK, LineType, LinePcs, Results, FileNames, StageType, StageStates, Statuses
  <2>7. PipeModes' /\ PipeClosed'
    BY <1>1, <1>5, <2>5 DEF PipeModes, PipeClosed, Launched, Pipeline!StagesAreInterrupted
  <2>8. PipeLaunch'
    <3>1. \A j \in Pipeline!All : State(j)' \in IF j < i + 1 THEN {"reaped"} ELSE {"none", "running", "refused", "gone"}
      <4>1. ASSUME NEW j \in Pipeline!All \ {i}
            PROVE  State(j)' = State(j) /\ (j < i + 1 <=> j < i)
        BY <1>3, <1>1, <1>t, <2>3 DEF State
      <4>2. i < i + 1
        BY <2>2
      <4> QED BY <1>1, <2>3, <4>1, <4>2
    <3>2. \A j, k \in Pipeline!All : j < k /\ State(k)' # "none" => State(j)' # "none"
      BY <1>1, <2>4
    <3> QED BY <2>5, <3>1, <3>2 DEF PipeLaunch
  <2>9. PipeStatus'
    <3>1. \A j \in Pipeline!All \ {i} : State(j)' = State(j) /\ stage'[j].status = stage[j].status
      BY <2>3 DEF State
    <3>2. i = Stages => stage'[i].status # 0
      BY <1>5, <2>1, <2>2, <2>3 DEF PipeStatus
    <3> QED BY <1>3, <1>5, <2>3, <3>1, <3>2 DEF PipeStatus, State
  <2>10. PipeResult'
    <3>1. i > Stages <=> FALSE
      BY <1>t, <2>2
    <3>2. line'.at > Stages => i = Stages
      BY <1>t, <2>2, <2>5
    <3>3. ~line.failed => \A j \in Pipeline!All : ~Missing(j)
      BY <1>2
    <3>4. line'.failed <=> \E j \in Pipeline!All : State(j)' = "none" \/ Missing(j)'
      BY <1>2, <1>3, <2>4, <2>5
    <3>5. (\E j \in Pipeline!All : State(j)' # "none" /\ Missing(j)') => line'.result = 127
      BY <1>2, <1>3, <2>4, <2>5, <3>3
    <3>6. ~line'.failed /\ line'.at > Stages => line'.result = stage'[Stages].status
      BY <2>3, <2>5, <3>2
    <3> QED BY <2>5, <3>4, <3>5, <3>6 DEF PipeResult, Launched
  <2> QED BY <1>4, <2>6, <2>7, <2>8, <2>9, <2>10 DEF PipeGood
<1>7. CASE i \notin Pipeline!Started
  <2>1. line' = [line EXCEPT !.pc = "restore"] /\ stage' = stage
    BY <1>1, <1>7 DEF Pipeline!Wait, Pipeline!LineTo
  <2>2. /\ line' \in LineType /\ line'.pc = "restore" /\ line'.failed = line.failed /\ line'.result = line.result
        /\ line'.held = line.held /\ line'.files = line.files
    <3>1. line' \in LineType
      BY <1>t, <2>1, LineSet DEF LinePcs
    <3> QED BY <1>t, <2>1, <3>1 DEF LineType
  <2>3. Pipeline!PipelineTypeOK'
    BY <1>t, <1>4, <2>1, <2>2
       DEF Pipeline!PipelineTypeOK, LineType, LinePcs, Results, FileNames, StageType, StageStates, Statuses
  <2>4. i \in Pipeline!All => State(i) = "none"
    BY <1>7 DEF Pipeline!Started, State
  <2>5. \A j \in Pipeline!All : State(j)' = State(j) /\ State(j) \in {"none", "reaped"}
    <3>1. \A j \in Pipeline!All : j < i \/ j = i \/ (i < j /\ i \in Pipeline!All)
      BY <1>t, <1>1, <1>3 DEF Pipeline!All
    <3> QED BY <1>1, <2>1, <2>4, <3>1 DEF State
  <2>6. PipeModes' /\ PipeClosed' /\ PipeStatus'
    BY <1>1, <1>3, <1>5, <2>1, <2>2
       DEF PipeModes, PipeClosed, PipeStatus, Launched, Pipeline!StagesAreInterrupted, State
  <2>7. PipeLaunch'
    BY <1>1, <2>2, <2>5 DEF PipeLaunch
  <2>8. PipeResult'
    <3>1. ~line.failed => i > Stages
      <4>1. ~line.failed => i \notin Pipeline!All
        BY <1>2, <2>4
      <4> QED BY <1>t, <1>1, <4>1 DEF Pipeline!All
    <3> QED BY <1>2, <1>3, <2>1, <2>2, <2>5, <3>1 DEF PipeResult, Launched
  <2> QED BY <1>4, <2>3, <2>6, <2>7, <2>8 DEF PipeGood
<1> QED BY <1>6, <1>7

\* The terminal is given back before the handlers.
LEMMA PipeGivesBack ==
  ASSUME PipeGood, Pipeline!RestoreTerm \/ Pipeline!Release
  PROVE  PipeGood'
<1>t. /\ line \in LineType /\ stage \in [Pipeline!All -> StageType]
      /\ pipe \in [Pipeline!Joints -> 0..PipeRoom]
      /\ tty \in [term : {"host", "cooked"}, signals : {"host", "ignored"}]
  BY PipeTypes DEF PipeGood
<1>1. /\ UNCHANGED <<plan, stage, pipe>> /\ line.pc \in {"restore", "release"}
      /\ line' = [line EXCEPT !.pc = IF line.pc = "restore" THEN "release" ELSE "done"]
      /\ tty' = IF line.pc = "restore" THEN [tty EXCEPT !.term = "host"] ELSE [tty EXCEPT !.signals = "host"]
  BY DEF Pipeline!RestoreTerm, Pipeline!Release, Pipeline!LineAt, Pipeline!LineTo
<1>2. /\ line' \in LineType /\ line'.pc = (IF line.pc = "restore" THEN "release" ELSE "done")
      /\ line'.failed = line.failed /\ line'.result = line.result
      /\ line'.held = line.held /\ line'.files = line.files
  <2> DEFINE q == IF line.pc = "restore" THEN "release" ELSE "done"
  <2>1. q \in LinePcs
    BY DEF LinePcs
  <2>2. line' = [line EXCEPT !.pc = q]
    BY <1>1
  <2> HIDE DEF q
  <2>3. /\ line' \in LineType /\ line'.pc = q
        /\ line'.failed = line.failed /\ line'.result = line.result
        /\ line'.held = line.held /\ line'.files = line.files
    <3>1. line' \in LineType
      BY <1>t, <2>1, <2>2, LineSet
    <3> QED BY <1>t, <2>2, <3>1 DEF LineType
  <2> QED BY <2>3 DEF q
<1>3. tty' \in [term : {"host", "cooked"}, signals : {"host", "ignored"}] /\ PipeModes'
  <2>1. PipeModes
    BY DEF PipeGood
  <2>2. CASE line.pc = "restore"
    <3>1. tty' = [tty EXCEPT !.term = "host"] /\ line'.pc = "release"
      BY <1>1, <1>2, <2>2
    <3> QED BY <1>t, <3>1 DEF PipeModes, Pipeline!StagesAreInterrupted
  <2>3. CASE line.pc = "release"
    <3>1. tty' = [tty EXCEPT !.signals = "host"] /\ line'.pc = "done" /\ tty.term = "host"
      BY <1>1, <1>2, <2>1, <2>3 DEF PipeModes
    <3> QED BY <1>t, <3>1 DEF PipeModes, Pipeline!StagesAreInterrupted
  <2> QED BY <1>1, <2>2, <2>3
<1>4. Pipeline!PipelineTypeOK'
  <2>1. stage' \in [Pipeline!All -> StageType] /\ pipe' \in [Pipeline!Joints -> 0..PipeRoom]
    BY <1>t, <1>1
  <2> QED BY <1>2, <1>3, <2>1
        DEF Pipeline!PipelineTypeOK, LineType, LinePcs, Results, FileNames, StageType, StageStates, Statuses
<1>5. plan' \in PlanType /\ PipeClosed' /\ PipeStatus'
  BY <1>1, <1>2 DEF PipeGood, PipeClosed, PipeStatus, Launched, State, Missing
<1>6. \A j \in Pipeline!All : State(j)' = State(j) /\ Missing(j)' = Missing(j)
  BY <1>1 DEF State, Missing
<1>7. PipeLaunch' /\ PipeResult'
  BY <1>1, <1>2, <1>6 DEF PipeGood, PipeLaunch, PipeResult, Launched
<1> QED BY <1>3, <1>4, <1>5, <1>7 DEF PipeGood

LEMMA PipeStep == PipeGood /\ Pipeline!PipelineNext => PipeGood'
<1> SUFFICES ASSUME PipeGood, Pipeline!PipelineNext PROVE PipeGood'
  OBVIOUS
<1>1. CASE Pipeline!Shell
  BY <1>1, PipeOpens, PipeForks, PipeReports, PipeCloses, PipeKills, PipeWaits, PipeGivesBack DEF Pipeline!Shell
<1>2. CASE Pipeline!Child \/ Pipeline!Interrupt
  BY <1>2, PipeChildren
<1>3. CASE UNCHANGED Pipeline!pipeVars
  BY <1>3 DEF Pipeline!pipeVars, PipeGood, Pipeline!PipelineTypeOK, PipeModes, PipeClosed, PipeLaunch, PipeStatus,
              PipeResult, State, Missing, Pipeline!StagesAreInterrupted
<1> QED BY <1>1, <1>2, <1>3 DEF Pipeline!PipelineNext, Pipeline!LineDone

\* What a pipeline promises on its return follows.
LEMMA PipeReturns == PipeGood => Pipeline!PipelineRestores /\ Pipeline!StagesAreInterrupted
<1> SUFFICES ASSUME PipeGood, line.pc = "done" PROVE Pipeline!PipelineRestores
  BY DEF PipeGood, PipeModes, Pipeline!PipelineRestores, Pipeline!LineAt
<1>1. tty = [term |-> "host", signals |-> "host"]
  BY PipeTypes DEF PipeGood, PipeModes
<1>2. line.held = {} /\ line.files = {}
  BY DEF PipeGood, PipeClosed, Launched
<1>3. \A i \in Pipeline!All : State(i) \in {"none", "reaped"}
  BY DEF PipeGood, PipeLaunch
<1>4. /\ line.failed <=> \E i \in Pipeline!All : State(i) = "none" \/ Missing(i)
      /\ (\E i \in Pipeline!All : State(i) # "none" /\ Missing(i)) => line.result = 127
      /\ ~line.failed => line.result = stage[Stages].status
  BY DEF PipeGood, PipeResult, Launched
<1>5. line.failed \in BOOLEAN
  BY PipeTypes DEF PipeGood, LineType
<1>6. line.failed = ~(\A i \in Pipeline!All : stage[i].state = "reaped" /\ ~plan[i].what.missing)
  BY <1>3, <1>4, <1>5 DEF State, Missing
<1>7. line.result = IF ~line.failed THEN stage[Stages].status
                    ELSE IF \E i \in Pipeline!Started : plan[i].what.missing THEN 127 ELSE line.result
  BY <1>4 DEF State, Missing, Pipeline!Started
<1> QED BY <1>1, <1>2, <1>3, <1>6, <1>7 DEF Pipeline!PipelineRestores, State

-----------------------------------------------------------------------------
(* The TCP server: its slots, their queues and the clients behind them.    *)

ServerBytes == (1..Conns) \X Nat
ChannelRec == [conn : 0..Conns, used : Seq(ServerBytes), failed : BOOLEAN]
PeerStates == {"away", "waiting", "open", "gone", "closed", "refused"}
PeerRec == [state : PeerStates, in : Nat, keys : Nat, out : Seq(ServerBytes), taken : Nat]
TalkRec == [wrote : Nat, exited : BOOLEAN]
ServerRec == [pc : {"poll", "serve", "close", "done"}, ready : SUBSET (0..Slots), at : 1..Slots, stopping : BOOLEAN]

\* A queue holds what session c wrote after its first n bytes.
Follows(c, n, q) == \A k \in 1..Len(q) : q[k] = <<c, n + k>>
Served(cl) == cl.state \in {"open", "gone"}
\* The kernel holds for a client what its session wrote next, and nothing for one
\* that is not connected.
Peered(c, cl) ==
  /\ cl.in + cl.keys <= Keys[c] /\ Len(cl.out) <= Wire
  /\ cl.state # "open" => cl.out = <<>>
  /\ cl.state \in {"away", "waiting"} => cl.taken = 0
  /\ Follows(c, cl.taken, cl.out)
\* A slot's queue goes on where the kernel's bytes end, up to what was written last.
Queued(c, ch, cl, talk) ==
  cl.state = "open" => /\ talk.wrote = cl.taken + Len(cl.out) + Len(ch.used)
                       /\ Follows(c, cl.taken + Len(cl.out), ch.used)

SlotTypes == /\ channel \in [1..Slots -> ChannelRec] /\ \A i \in 1..Slots : Len(channel[i].used) <= Queue
             /\ session \in [1..Conns -> TalkRec] /\ client \in [1..Conns -> PeerRec]
SlotOwners == /\ \A i, j \in 1..Slots : channel[i].conn # 0 /\ channel[i].conn = channel[j].conn => i = j
              /\ \A c \in 1..Conns : Served(client[c]) <=> \E i \in 1..Slots : channel[i].conn = c
SlotBytes == /\ \A c \in 1..Conns : Peered(c, client[c])
             /\ \A i \in 1..Slots, c \in 1..Conns :
                  channel[i].conn = c => Queued(c, channel[i], client[c], session[c])
SlotsGood == SlotTypes /\ SlotOwners /\ SlotBytes
ServerGood == server \in ServerRec /\ SlotsGood

LEMMA ServerStarts == Telnetd!ServerInit => ServerGood
<1> SUFFICES ASSUME Telnetd!ServerInit PROVE ServerGood
  OBVIOUS
<1>a. Conns \in Nat /\ Slots \in Nat \ {0} /\ Queue \in Nat \ {0} /\ Wire \in Nat /\ Keys \in [1..Conns -> Nat]
  BY ServerAssumption
<1>1. /\ channel = [i \in 1..Slots |-> [conn |-> 0, used |-> <<>>, failed |-> FALSE]]
      /\ server = [pc |-> "poll", ready |-> {}, at |-> 1, stopping |-> FALSE]
      /\ session = [c \in 1..Conns |-> [wrote |-> 0, exited |-> FALSE]]
      /\ client = [c \in 1..Conns |-> [state |-> "away", in |-> 0, keys |-> Keys[c], out |-> <<>>, taken |-> 0]]
  BY DEF Telnetd!ServerInit, Telnetd!NoChannel, Telnetd!NoSession, Telnetd!Peer
<1>2. server \in ServerRec
  BY <1>a, <1>1 DEF ServerRec
<1>3. SlotTypes
  <2>1. channel \in [1..Slots -> ChannelRec] /\ \A i \in 1..Slots : Len(channel[i].used) <= Queue
    BY <1>a, <1>1 DEF ChannelRec
  <2>2. session \in [1..Conns -> TalkRec]
    BY <1>1 DEF TalkRec
  <2>3. client \in [1..Conns -> PeerRec]
    BY <1>a, <1>1 DEF PeerRec, PeerStates
  <2> QED BY <2>1, <2>2, <2>3 DEF SlotTypes
<1>4. SlotOwners
  BY <1>a, <1>1 DEF SlotOwners, Served
<1>5. SlotBytes
  BY <1>a, <1>1 DEF SlotBytes, Peered, Queued, Follows
<1> QED BY <1>2, <1>3, <1>4, <1>5 DEF ServerGood, SlotsGood

\* A channel with other values in some of its fields is one.
LEMMA ChannelParts ==
  ASSUME NEW ch \in ChannelRec
  PROVE  ch.used \in Seq(ServerBytes) /\ ch.failed \in BOOLEAN /\ ch.conn \in 0..Conns /\ Len(ch.used) \in Nat
<1>1. ch.used \in Seq(ServerBytes) /\ ch.failed \in BOOLEAN /\ ch.conn \in 0..Conns
  BY DEF ChannelRec
<1> QED BY <1>1

LEMMA ChannelFreed ==
  ASSUME NEW ch \in ChannelRec, NEW q, q = [ch EXCEPT !.conn = 0]
  PROVE  q \in ChannelRec /\ q.conn = 0 /\ q.used = ch.used
BY ServerAssumption DEF ChannelRec

LEMMA ChannelTaken ==
  ASSUME NEW ch \in ChannelRec, NEW c \in 0..Conns, NEW used \in Seq(ServerBytes),
         NEW q, q = [ch EXCEPT !.conn = c, !.used = used]
  PROVE  q \in ChannelRec /\ q.conn = c /\ q.used = used
<1>1. \A r \in ChannelRec : [r EXCEPT !.conn = c] \in ChannelRec
  BY DEF ChannelRec
<1>2. \A r \in ChannelRec : [r EXCEPT !.used = used] \in ChannelRec
  BY DEF ChannelRec
<1>3. q \in ChannelRec
  BY <1>1, <1>2, Zenon
<1>4. q.conn = c /\ q.used = used
  BY DEF ChannelRec
<1> QED BY <1>3, <1>4

\* What becomes of a text that is sent: what the kernel and the queue hold after it
\* goes on in the order it was written, or the channel has failed.
Carries(c, n, ch, out, gone, text, w) ==
  /\ w.ch \in ChannelRec /\ w.ch.conn = ch.conn /\ Len(w.ch.used) <= Queue
  /\ w.out \in Seq(ServerBytes) /\ Len(w.out) <= Wire
  /\ gone => w.out = out
  /\ Follows(c, n, out) /\ Follows(c, n + Len(out), ch.used) /\ Follows(c, n + Len(out) + Len(ch.used), text) =>
       /\ Follows(c, n, w.out)
       /\ ~w.ch.failed => /\ Follows(c, n + Len(w.out), w.ch.used)
                          /\ Len(w.out) + Len(w.ch.used) = Len(out) + Len(ch.used) + Len(text)

\* A text goes into the kernel and the queue so.
LEMMA SentInOrder ==
  ASSUME NEW c, NEW n \in Nat, NEW ch \in ChannelRec, NEW out \in Seq(ServerBytes), NEW text \in Seq(ServerBytes),
         NEW gone \in BOOLEAN, NEW w, w = Telnetd!Sent(ch, out, gone, text), Len(out) <= Wire, Len(ch.used) <= Queue
  PROVE  Carries(c, n, ch, out, gone, text, w)
<1> DEFINE room == IF gone \/ ch.failed THEN 0 ELSE Wire - Len(out)
           all == ch.used \o text
           moved == Telnetd!Least(Len(all), room)
           last == Telnetd!Least(Len(all), Queue + room)
           first == SubSeq(all, 1, moved)
           kept == SubSeq(all, moved + 1, last)
           broken == ch.failed \/ Len(all) > Queue + room \/ (gone /\ all # <<>>)
<1>a. Queue \in Nat /\ Wire \in Nat
  BY ServerAssumption
<1>c. ch.used \in Seq(ServerBytes) /\ ch.failed \in BOOLEAN
  BY ChannelParts
<1>n. Len(out) \in Nat /\ Len(ch.used) \in Nat /\ Len(text) \in Nat
  BY <1>c
<1>1. w = [ch |-> [ch EXCEPT !.failed = broken, !.used = kept], out |-> out \o first]
  BY DEF Telnetd!Sent
<1>2. /\ all \in Seq(ServerBytes) /\ Len(all) = Len(ch.used) + Len(text)
      /\ \A k \in 1..Len(ch.used) : all[k] = ch.used[k]
      /\ \A k \in 1..Len(text) : all[Len(ch.used) + k] = text[k]
  BY <1>c
<1>3. room \in Nat /\ Len(out) + room <= Wire /\ (gone => room = 0)
  BY <1>a
<1> HIDE DEF all, room
<1>4. /\ moved \in Nat /\ moved <= Len(all) /\ moved <= room /\ last \in Nat /\ last <= Len(all)
      /\ moved <= last /\ last - moved <= Queue
      /\ ~broken => last = Len(all)
  <2>1. PICK size \in Nat : size = Len(all)
    BY <1>2
  <2>2. moved = (IF size < room THEN size ELSE room) /\ last = IF size < Queue + room THEN size ELSE Queue + room
    BY <2>1 DEF Telnetd!Least
  <2>3. ~broken => ~(size > Queue + room)
    BY <2>1
  <2> HIDE DEF moved, last, broken
  <2> QED BY <1>a, <1>3, <2>1, <2>2, <2>3
<1> HIDE DEF moved, last
<1>5. /\ first \in Seq(ServerBytes) /\ Len(first) = moved /\ \A k \in 1..moved : first[k] = all[k]
  BY <1>2, <1>4
<1>6. /\ kept \in Seq(ServerBytes) /\ Len(kept) = last - moved
      /\ \A k \in 1..(last - moved) : kept[k] = all[moved + k]
  BY <1>2, <1>4
<1>7. /\ out \o first \in Seq(ServerBytes) /\ Len(out \o first) = Len(out) + moved
      /\ \A k \in 1..Len(out) : (out \o first)[k] = out[k]
      /\ \A k \in 1..moved : (out \o first)[Len(out) + k] = all[k]
  BY <1>5
<1>8. broken \in BOOLEAN
  BY <1>c
<1> HIDE DEF first, kept, broken
<1>9. w.ch \in ChannelRec /\ w.ch.conn = ch.conn /\ w.ch.used = kept /\ w.ch.failed = broken /\ w.out = out \o first
  <2>1. PICK q : q = [ch EXCEPT !.failed = broken, !.used = kept]
    OBVIOUS
  <2>2. q \in ChannelRec /\ q.conn = ch.conn /\ q.used = kept /\ q.failed = broken
    <3>1. kept \in Seq(ServerBytes)
      BY <1>6
    <3>2. \A r \in ChannelRec : [r EXCEPT !.failed = broken] \in ChannelRec
      BY <1>8 DEF ChannelRec
    <3>3. \A r \in ChannelRec : [r EXCEPT !.used = kept] \in ChannelRec
      BY <3>1 DEF ChannelRec
    <3>4. q \in ChannelRec
      BY <2>1, <3>2, <3>3, Zenon
    <3>5. q.conn = ch.conn /\ q.used = kept /\ q.failed = broken
      BY <2>1 DEF ChannelRec
    <3> QED BY <3>4, <3>5
  <2>3. w = [ch |-> q, out |-> out \o first]
    BY <1>1, <2>1
  <2> QED BY <2>2, <2>3
<1>10. gone => out \o first = out
  BY <1>3, <1>4, <1>5, <1>7
<1>11. ASSUME Follows(c, n, out), Follows(c, n + Len(out), ch.used), Follows(c, n + Len(out) + Len(ch.used), text)
       PROVE  /\ Follows(c, n, w.out)
              /\ ~w.ch.failed => /\ Follows(c, n + Len(w.out), w.ch.used)
                                 /\ Len(w.out) + Len(w.ch.used) = Len(out) + Len(ch.used) + Len(text)
  <2>1. \A k \in 1..Len(all) : all[k] = <<c, n + Len(out) + k>>
    <3> SUFFICES ASSUME NEW k \in 1..Len(all) PROVE all[k] = <<c, n + Len(out) + k>>
      OBVIOUS
    <3>1. CASE k <= Len(ch.used)
      <4>1. k \in 1..Len(ch.used)
        BY <1>c, <1>2, <3>1
      <4> QED BY <1>2, <1>11, <4>1 DEF Follows
    <3>2. CASE ~(k <= Len(ch.used))
      <4>1. PICK j : j = k - Len(ch.used)
        OBVIOUS
      <4>2. j \in 1..Len(text) /\ k = Len(ch.used) + j
        BY <1>c, <1>2, <3>2, <4>1
      <4>3. all[k] = text[j] /\ text[j] = <<c, n + Len(out) + Len(ch.used) + j>>
        BY <1>2, <1>11, <4>2 DEF Follows
      <4>4. n + Len(out) + Len(ch.used) + j = n + Len(out) + k
        <5>1. PICK a, b \in Nat : a = Len(out) /\ b = Len(ch.used)
          BY <1>n
        <5>2. k = b + j /\ k \in Nat
          BY <4>2, <5>1
        <5>3. j = k - b
          BY <4>1, <5>1
        <5>4. n \in Int /\ a \in Int /\ b \in Int /\ j \in Int
          BY <5>2, <5>3
        <5>5. \A r, s, t, u \in Int : r + s + t + u = r + s + (t + u)
          OBVIOUS
        <5>6. n + a + b + j = n + a + (b + j)
          BY <5>4, <5>5
        <5> QED BY <5>1, <5>2, <5>6
      <4> QED BY <4>3, <4>4
    <3> QED BY <3>1, <3>2
  <2>2. Follows(c, n, out \o first)
    <3> SUFFICES ASSUME NEW k \in 1..Len(out \o first) PROVE (out \o first)[k] = <<c, n + k>>
      BY DEF Follows
    <3>1. CASE k <= Len(out)
      BY <1>7, <1>11, <3>1 DEF Follows
    <3>2. CASE ~(k <= Len(out))
      <4>1. PICK j : j = k - Len(out)
        OBVIOUS
      <4>2. j \in 1..moved /\ k = Len(out) + j /\ j \in 1..Len(all)
        BY <1>2, <1>4, <1>7, <3>2, <4>1
      <4>3. (out \o first)[k] = <<c, n + Len(out) + j>>
        BY <1>7, <2>1, <4>2
      <4>4. n + Len(out) + j = n + k
        BY <4>2
      <4> QED BY <4>3, <4>4
    <3> QED BY <3>1, <3>2
  <2>3. ASSUME ~broken
        PROVE  Follows(c, n + Len(w.out), kept) /\ Len(w.out) + Len(kept) = Len(out) + Len(ch.used) + Len(text)
    <3>1. last = Len(all)
      BY <1>4, <2>3 DEF broken
    <3>2. Len(w.out) = Len(out) + moved
      BY <1>7, <1>9
    <3>3. Len(w.out) + Len(kept) = Len(out) + Len(ch.used) + Len(text)
      <4>1. Len(all) = Len(ch.used) + Len(text) /\ Len(kept) = last - moved
        BY <1>2, <1>6
      <4>2. moved \in Nat /\ last \in Nat
        BY <1>4
      <4> QED BY <1>n, <3>1, <3>2, <4>1, <4>2
    <3>4. Follows(c, n + Len(w.out), kept)
      <4> SUFFICES ASSUME NEW k \in 1..Len(kept) PROVE kept[k] = <<c, n + Len(w.out) + k>>
        BY DEF Follows
      <4>1. PICK j : j = moved + k
        OBVIOUS
      <4>2. j \in 1..Len(all) /\ k \in 1..(last - moved)
        BY <1>2, <1>4, <1>6, <4>1
      <4>3. kept[k] = <<c, n + Len(out) + j>>
        BY <1>6, <2>1, <4>1, <4>2
      <4>4. n + Len(out) + j = n + Len(w.out) + k
        BY <1>4, <3>2, <4>1
      <4> QED BY <4>3, <4>4
    <3> QED BY <3>3, <3>4
  <2> QED BY <1>9, <2>2, <2>3
<1>12. Len(kept) <= Queue /\ Len(out \o first) <= Wire
  BY <1>a, <1>3, <1>4, <1>6, <1>7
<1> QED BY <1>7, <1>9, <1>10, <1>11, <1>12 DEF Carries

\* A client that moves by itself, and stays connected or not.
LEMMA ClientMoves ==
  ASSUME SlotsGood, NEW c \in 1..Conns, NEW cl \in PeerRec, client' = [client EXCEPT ![c] = cl],
         UNCHANGED <<channel, session>>, Peered(c, cl), Served(cl) <=> Served(client[c]),
         \A i \in 1..Slots : channel[i].conn = c => Queued(c, channel[i], cl, session[c])
  PROVE  SlotsGood'
<1>1. client'[c] = cl /\ \A d \in 1..Conns : d # c => client'[d] = client[d]
  BY DEF SlotsGood, SlotTypes
<1>2. SlotTypes'
  <2>1. client' \in [1..Conns -> PeerRec]
    BY DEF SlotsGood, SlotTypes
  <2> QED BY <2>1 DEF SlotsGood, SlotTypes
<1>3. \A d \in 1..Conns : Served(client'[d]) <=> Served(client[d])
  BY <1>1
<1>4. SlotOwners'
  BY <1>3 DEF SlotsGood, SlotOwners, Served
<1>5. \A d \in 1..Conns : Peered(d, client'[d])
  BY <1>1 DEF SlotsGood, SlotBytes
<1>6. \A i \in 1..Slots, d \in 1..Conns : channel[i].conn = d => Queued(d, channel[i], client'[d], session[d])
  BY <1>1 DEF SlotsGood, SlotBytes
<1>7. SlotBytes'
  BY <1>5, <1>6 DEF SlotBytes, Peered, Queued, Follows
<1> QED BY <1>2, <1>4, <1>7 DEF SlotsGood

\* A slot that is taken by a client, served for it, or given up.
LEMMA SlotMoves ==
  ASSUME SlotsGood, NEW i \in 1..Slots, NEW c \in 1..Conns, channel[i].conn \in {0, c},
         NEW ch \in ChannelRec, NEW cl \in PeerRec, NEW talk \in TalkRec,
         channel' = [channel EXCEPT ![i] = ch], client' = [client EXCEPT ![c] = cl],
         session' = [session EXCEPT ![c] = talk], Len(ch.used) <= Queue, Peered(c, cl),
         channel[i].conn = 0 => ~Served(client[c]),
         ch.conn \in {0, c}, Served(cl) <=> ch.conn = c, ch.conn = c => Queued(c, ch, cl, talk)
  PROVE  SlotsGood'
<1>1. /\ client'[c] = cl /\ session'[c] = talk /\ channel'[i] = ch
      /\ \A d \in 1..Conns : d # c => client'[d] = client[d] /\ session'[d] = session[d]
      /\ \A j \in 1..Slots : j # i => channel'[j] = channel[j]
  BY DEF SlotsGood, SlotTypes
<1>c. c # 0
  BY ServerAssumption
<1>2. SlotTypes'
  <2>1. client' \in [1..Conns -> PeerRec] /\ session' \in [1..Conns -> TalkRec] /\ channel' \in [1..Slots -> ChannelRec]
    BY DEF SlotsGood, SlotTypes
  <2>2. \A j \in 1..Slots : Len(channel'[j].used) <= Queue
    BY <1>1 DEF SlotsGood, SlotTypes
  <2> QED BY <2>1, <2>2 DEF SlotTypes
\* Another slot has another client.
<1>3. \A j \in 1..Slots : j # i => channel[j].conn # c
  <2> SUFFICES ASSUME NEW j \in 1..Slots, j # i, channel[j].conn = c PROVE FALSE
    OBVIOUS
  <2>1. CASE channel[i].conn = 0
    <3>1. Served(client[c])
      BY DEF SlotsGood, SlotOwners
    <3> QED BY <2>1, <3>1
  <2>2. CASE channel[i].conn = c
    BY <1>c, <2>2 DEF SlotsGood, SlotOwners
  <2> QED BY <2>1, <2>2
<1>4. SlotOwners'
  <2>1. \A j, k \in 1..Slots : channel'[j].conn # 0 /\ channel'[j].conn = channel'[k].conn => j = k
    <3> SUFFICES ASSUME NEW j \in 1..Slots, NEW k \in 1..Slots,
                        channel'[j].conn # 0, channel'[j].conn = channel'[k].conn
                 PROVE  j = k
      OBVIOUS
    <3>1. CASE j = i /\ k # i
      BY <1>1, <1>3, <3>1
    <3>2. CASE j # i /\ k = i
      BY <1>1, <1>3, <3>2
    <3>3. CASE j # i /\ k # i
      BY <1>1, <3>3 DEF SlotsGood, SlotOwners
    <3> QED BY <3>1, <3>2, <3>3
  <2>2. ASSUME NEW d \in 1..Conns PROVE Served(client'[d]) <=> \E j \in 1..Slots : channel'[j].conn = d
    <3>1. CASE d = c
      BY <1>1, <1>3, <1>c, <3>1
    <3>2. CASE d # c
      <4>1. Served(client[d]) <=> \E j \in 1..Slots : channel[j].conn = d
        BY DEF SlotsGood, SlotOwners
      <4>2. d # 0
        BY ServerAssumption
      <4>3. channel[i].conn # d /\ channel'[i].conn # d
        BY <1>1, <3>2, <4>2
      <4>4. (\E j \in 1..Slots : channel'[j].conn = d) <=> \E j \in 1..Slots : channel[j].conn = d
        BY <1>1, <4>3
      <4> QED BY <1>1, <3>2, <4>1, <4>4
    <3> QED BY <3>1, <3>2
  <2> QED BY <2>1, <2>2 DEF SlotOwners, Served
<1>5. \A d \in 1..Conns : Peered(d, client'[d])
  BY <1>1 DEF SlotsGood, SlotBytes
<1>6. \A j \in 1..Slots, d \in 1..Conns : channel'[j].conn = d => Queued(d, channel'[j], client'[d], session'[d])
  <2> SUFFICES ASSUME NEW j \in 1..Slots, NEW d \in 1..Conns, channel'[j].conn = d
               PROVE  Queued(d, channel'[j], client'[d], session'[d])
    OBVIOUS
  <2>0. d # 0
    BY ServerAssumption
  <2>1. CASE j = i
    BY <1>1, <2>0, <2>1
  <2>2. CASE j # i
    <3>1. channel[j].conn = d /\ d # c
      BY <1>1, <1>3, <2>2
    <3> QED BY <1>1, <2>2, <3>1 DEF SlotsGood, SlotBytes
  <2> QED BY <2>1, <2>2
<1>7. SlotBytes'
  BY <1>5, <1>6 DEF SlotBytes, Peered, Queued, Follows
<1> QED BY <1>2, <1>4, <1>7 DEF SlotsGood

\* A client connects, types, reads what came or goes away.
LEMMA ClientsGood ==
  ASSUME SlotsGood, Telnetd!Clients
  PROVE  SlotsGood' /\ UNCHANGED server
<1>1. PICK c \in 1..Conns : Telnetd!Connect(c) \/ Telnetd!Send(c) \/ Telnetd!Take(c) \/ Telnetd!Leave(c)
  BY DEF Telnetd!Clients
<1>2. UNCHANGED <<channel, server, session>>
  BY <1>1 DEF Telnetd!Connect, Telnetd!Send, Telnetd!Take, Telnetd!Leave
<1> DEFINE was == client[c]
<1>3. /\ client \in [1..Conns -> PeerRec] /\ was \in PeerRec /\ Peered(c, was)
      /\ was.in \in Nat /\ was.keys \in Nat /\ was.taken \in Nat /\ was.out \in Seq(ServerBytes) /\ was.state \in PeerStates
  BY DEF SlotsGood, SlotTypes, SlotBytes, PeerRec
<1>n. was.in \in Nat /\ was.keys \in Nat /\ was.taken \in Nat /\ was.out \in Seq(ServerBytes) /\ Len(was.out) \in Nat
  BY <1>3
<1>q. \A i \in 1..Slots : channel[i].conn = c => Queued(c, channel[i], was, session[c])
  BY DEF SlotsGood, SlotBytes
<1>k. Keys[c] \in Nat /\ Wire \in Nat
  BY ServerAssumption
<1>4. CASE Telnetd!Connect(c)
  <2> DEFINE cl == [was EXCEPT !.state = "waiting"]
  <2>1. was.state = "away" /\ client' = [client EXCEPT ![c] = cl]
    BY <1>3, <1>4 DEF Telnetd!Connect
  <2>2. /\ cl \in PeerRec /\ cl.state = "waiting" /\ cl.in = was.in /\ cl.keys = was.keys
        /\ cl.out = was.out /\ cl.taken = was.taken
    BY <1>3 DEF PeerRec, PeerStates
  <2> HIDE DEF cl
  <2>3. Peered(c, cl) /\ (Served(cl) <=> Served(was)) /\ \A i \in 1..Slots : Queued(c, channel[i], cl, session[c])
    BY <1>3, <2>1, <2>2 DEF Peered, Served, Queued
  <2> QED BY <1>2, <2>1, <2>2, <2>3, ClientMoves
<1>5. CASE Telnetd!Send(c)
  <2>0. PICK k, n : k = was.keys - 1 /\ n = was.in + 1
    OBVIOUS
  <2> DEFINE cl == [was EXCEPT !.keys = k, !.in = n]
  <2>1. was.state = "open" /\ was.keys > 0 /\ client' = [client EXCEPT ![c] = cl]
    BY <1>3, <1>5, <2>0 DEF Telnetd!Send, Telnetd!Linked
  <2>s. k \in Nat /\ n \in Nat /\ n + k = was.in + was.keys
    <3>1. PICK a, b \in Nat : a = was.keys /\ b = was.in
      BY <1>n
    <3>2. a > 0 /\ k = a - 1 /\ n = b + 1
      BY <2>0, <2>1, <3>1
    <3>3. k \in Nat /\ n \in Nat /\ n + k = b + a
      BY <3>2
    <3> QED BY <3>1, <3>3
  <2>2. /\ cl \in PeerRec /\ cl.state = was.state /\ cl.in = n /\ cl.keys = k
        /\ cl.out = was.out /\ cl.taken = was.taken
    BY <1>3, <2>s DEF PeerRec
  <2> HIDE DEF cl
  <2>3. Peered(c, cl) /\ (Served(cl) <=> Served(was))
    BY <1>3, <2>s, <2>2 DEF Peered, Served
  <2>4. \A i \in 1..Slots : channel[i].conn = c => Queued(c, channel[i], cl, session[c])
    BY <1>q, <2>2 DEF Queued
  <2> QED BY <1>2, <2>1, <2>2, <2>3, <2>4, ClientMoves
<1>6. CASE Telnetd!Take(c)
  <2>0. PICK q, n : q = Tail(was.out) /\ n = was.taken + 1
    OBVIOUS
  <2> DEFINE cl == [was EXCEPT !.out = q, !.taken = n]
  <2>1. was.out # <<>> /\ client' = [client EXCEPT ![c] = cl]
    BY <1>3, <1>6, <2>0 DEF Telnetd!Take
  <2>s. /\ n \in Nat /\ q \in Seq(ServerBytes) /\ Len(was.out) > 0 /\ Len(q) = Len(was.out) - 1
        /\ \A k \in 1..Len(q) : q[k] = was.out[k + 1]
    BY <1>3, <2>0, <2>1
  <2>2. /\ cl \in PeerRec /\ cl.state = was.state /\ cl.in = was.in /\ cl.keys = was.keys
        /\ cl.out = q /\ cl.taken = n
    BY <1>3, <2>s DEF PeerRec
  <2> HIDE DEF cl
  <2>3. was.state = "open"
    BY <1>3, <2>1 DEF Peered
  <2>4. Follows(c, n, q)
    <3> SUFFICES ASSUME NEW k \in 1..Len(q) PROVE q[k] = <<c, n + k>>
      BY DEF Follows
    <3>1. k + 1 \in 1..Len(was.out)
      BY <1>3, <2>s
    <3>2. was.out[k + 1] = <<c, was.taken + (k + 1)>>
      BY <1>3, <3>1 DEF Peered, Follows
    <3>3. was.taken + (k + 1) = n + k
      <4>1. PICK a \in Nat : a = was.taken
        BY <1>n
      <4>2. n = a + 1
        BY <2>0, <4>1
      <4>3. a + (k + 1) = n + k
        BY <4>2
      <4> QED BY <4>1, <4>3
    <3> QED BY <2>s, <3>2, <3>3
  <2>5. Peered(c, cl) /\ (Served(cl) <=> Served(was))
    <3>1. Len(q) <= Wire
      BY <1>3, <1>k, <2>s DEF Peered
    <3> QED BY <1>3, <2>2, <2>3, <2>4, <3>1 DEF Peered, Served
  <2>6. ASSUME NEW i \in 1..Slots, channel[i].conn = c PROVE Queued(c, channel[i], cl, session[c])
    <3>1. n + Len(q) = was.taken + Len(was.out)
      <4>1. PICK a, b \in Nat : a = was.taken /\ b = Len(was.out)
        BY <1>n
      <4>2. PICK z : z = Len(q)
        OBVIOUS
      <4>3. z = b - 1 /\ n = a + 1
        BY <2>0, <2>s, <4>1, <4>2
      <4>4. n + z = a + b
        BY <4>3
      <4> QED BY <4>1, <4>2, <4>4
    <3> QED BY <1>q, <2>2, <2>3, <2>6, <3>1 DEF Queued
  <2> QED BY <1>2, <2>1, <2>2, <2>5, <2>6, ClientMoves
<1>7. CASE Telnetd!Leave(c)
  <2> DEFINE cl == [was EXCEPT !.state = "gone", !.out = <<>>]
  <2>1. was.state = "open" /\ client' = [client EXCEPT ![c] = cl]
    BY <1>3, <1>7 DEF Telnetd!Leave, Telnetd!Linked
  <2>2. /\ cl \in PeerRec /\ cl.state = "gone" /\ cl.in = was.in /\ cl.keys = was.keys
        /\ cl.out = <<>> /\ cl.taken = was.taken
    <3>1. <<>> \in Seq(ServerBytes) /\ "gone" \in PeerStates
      BY DEF PeerStates
    <3> QED BY <1>3, <3>1 DEF PeerRec
  <2> HIDE DEF cl
  <2>3. Peered(c, cl) /\ (Served(cl) <=> Served(was)) /\ \A i \in 1..Slots : Queued(c, channel[i], cl, session[c])
    BY <1>3, <1>k, <2>1, <2>2 DEF Peered, Served, Queued, Follows
  <2> QED BY <1>2, <2>1, <2>2, <2>3, ClientMoves
<1> QED BY <1>1, <1>2, <1>4, <1>5, <1>6, <1>7

\* The least slot that is free goes to the first client that waits.
LEMMA AcceptGood ==
  ASSUME SlotsGood, Telnetd!Accept
  PROVE  SlotsGood'
<1> DEFINE free == {j \in 1..Slots : ~Telnetd!Busy(j)}
           c == CHOOSE d \in Telnetd!Waiting : \A e \in Telnetd!Waiting : d <= e
           i == CHOOSE j \in free : \A t \in free : j <= t
<1>1. CASE Telnetd!Waiting = {}
  BY <1>1 DEF Telnetd!Accept, SlotsGood, SlotTypes, SlotOwners, SlotBytes, Served, Peered, Queued, Follows
<1>2. CASE Telnetd!Waiting # {}
  <2>1. c \in 1..Conns /\ client[c].state = "waiting"
    <3>1. Telnetd!Waiting \in SUBSET Nat
      BY ServerAssumption DEF Telnetd!Waiting
    <3>2. c \in Telnetd!Waiting
      BY <1>2, <3>1, LeastIn
    <3> HIDE DEF c
    <3> QED BY <3>2 DEF Telnetd!Waiting
  <2> HIDE DEF c
  <2> DEFINE was == client[c]
  <2>2. /\ client \in [1..Conns -> PeerRec] /\ was \in PeerRec /\ Peered(c, was)
        /\ was.in \in Nat /\ was.keys \in Nat /\ was.taken = 0 /\ was.out = <<>> /\ ~Served(was)
    BY <2>1 DEF SlotsGood, SlotTypes, SlotBytes, PeerRec, Peered, Served
  <2>3. CASE free = {}
    <3> DEFINE cl == [was EXCEPT !.state = "refused"]
    <3>1. client' = [client EXCEPT ![c] = cl] /\ UNCHANGED <<channel, session>>
      BY <1>2, <2>2, <2>3 DEF Telnetd!Accept, c
    <3>2. /\ cl \in PeerRec /\ cl.state = "refused" /\ cl.in = was.in /\ cl.keys = was.keys
          /\ cl.out = was.out /\ cl.taken = was.taken
      BY <2>2 DEF PeerRec, PeerStates
    <3> HIDE DEF cl
    <3>3. Peered(c, cl) /\ (Served(cl) <=> Served(was)) /\ \A j \in 1..Slots : Queued(c, channel[j], cl, session[c])
      BY <2>2, <3>2 DEF Peered, Served, Queued
    <3> QED BY <2>1, <3>1, <3>2, <3>3, ClientMoves
  <2>4. CASE free # {}
    <3>1. i \in 1..Slots /\ channel[i].conn = 0
      <4>1. free \in SUBSET Nat
        BY ServerAssumption
      <4>2. i \in free
        BY <2>4, <4>1, LeastIn
      <4> HIDE DEF i
      <4> QED BY <4>2 DEF Telnetd!Busy, Telnetd!Owner
    <3>0. /\ client' = [client EXCEPT ![c].state = "open"] /\ session' = [session EXCEPT ![c].wrote = 1]
          /\ channel' = [channel EXCEPT ![i] = [[conn |-> 0, used |-> <<>>, failed |-> FALSE]
                                                  EXCEPT !.conn = c, !.used = <<<<c, 1>>>>]]
      BY <1>2, <2>4 DEF Telnetd!Accept, Telnetd!Occupied, Telnetd!NoChannel, c
    <3> HIDE DEF i, free
    <3> DEFINE cl == [was EXCEPT !.state = "open"]
               talk == [session[c] EXCEPT !.wrote = 1]
               ch == [[conn |-> 0, used |-> <<>>, failed |-> FALSE] EXCEPT !.conn = c, !.used = <<<<c, 1>>>>]
    <3>2. /\ client' = [client EXCEPT ![c] = cl] /\ session' = [session EXCEPT ![c] = talk]
          /\ channel' = [channel EXCEPT ![i] = ch]
      <4>1. client' = [client EXCEPT ![c] = cl]
        BY <2>1, <2>2, <3>0
      <4>2. session' = [session EXCEPT ![c] = talk]
        BY <2>1, <3>0 DEF SlotsGood, SlotTypes
      <4> QED BY <3>0, <4>1, <4>2, Zenon
    <3>3. /\ cl \in PeerRec /\ cl.state = "open" /\ cl.in = was.in /\ cl.keys = was.keys
          /\ cl.out = <<>> /\ cl.taken = 0
      BY <2>2 DEF PeerRec, PeerStates
    <3>4. talk \in TalkRec /\ talk.wrote = 1
      BY <2>1 DEF SlotsGood, SlotTypes, TalkRec
    <3>5. ch \in ChannelRec /\ ch.conn = c /\ ch.used = <<<<c, 1>>>> /\ Len(ch.used) = 1 /\ ch.used[1] = <<c, 1>>
      <4>1. c \in 0..Conns /\ <<<<c, 1>>>> \in Seq(ServerBytes)
        BY <2>1, ServerAssumption DEF ServerBytes
      <4>2. [conn |-> 0, used |-> <<>>, failed |-> FALSE] \in ChannelRec
        BY ServerAssumption DEF ChannelRec
      <4>3. ch \in ChannelRec /\ ch.conn = c /\ ch.used = <<<<c, 1>>>>
        BY <4>1, <4>2, ChannelTaken, Zenon
      <4> HIDE DEF ch
      <4> QED BY <4>3
    <3> HIDE DEF cl, talk, ch
    <3>6. Peered(c, cl) /\ Served(cl) /\ Len(ch.used) <= Queue
      BY <2>2, <3>3, <3>5, ServerAssumption DEF Peered, Served, Follows
    <3>7. Queued(c, ch, cl, talk)
      BY <3>3, <3>4, <3>5 DEF Queued, Follows
    <3> QED BY <2>1, <2>2, <3>1, <3>2, <3>3, <3>4, <3>5, <3>6, <3>7, SlotMoves
  <2> QED BY <2>3, <2>4
<1> QED BY <1>1, <1>2

\* A slot is read, its session fed, what it wrote flushed, and the slot given up if
\* its client is gone, its queue overflowed or its session is at its end.
LEMMA ServeGood ==
  ASSUME SlotsGood, NEW i \in 1..Slots, Telnetd!ServeBusy(i)
  PROVE  SlotsGood'
<1> DEFINE c == channel[i].conn
           was == client[c]
           talked == session[c]
           gone == was.state = "gone"
           reads == i \in server.ready
           fed == IF reads /\ ~talked.exited THEN was.in ELSE 0
           size == IF talked.exited THEN 0 ELSE fed * Reply
           text == [k \in 1..size |-> <<c, talked.wrote + k>>]
           lost == reads /\ was.in = 0 /\ gone
           before == [channel[i] EXCEPT !.failed = channel[i].failed \/ lost]
           w == Telnetd!Sent(before, was.out, gone, text)
           exited == talked.exited \/ (fed > 0 /\ was.keys = 0)
           over == w.ch.failed \/ (exited /\ w.ch.used = <<>>)
<1>a. Reply \in Nat /\ Queue \in Nat /\ Wire \in Nat
  BY ServerAssumption
<1>1. /\ session' = [session EXCEPT ![c] = IF over THEN [wrote |-> 0, exited |-> FALSE]
                                           ELSE [wrote |-> talked.wrote + Len(text), exited |-> exited]]
      /\ channel' = [channel EXCEPT ![i] = IF over THEN [w.ch EXCEPT !.conn = 0] ELSE w.ch]
      /\ client' = [client EXCEPT ![c] = IF over THEN Telnetd!Over
                                         ELSE [was EXCEPT !.in = IF reads THEN 0 ELSE was.in, !.out = w.out]]
  <2>1. channel' = [channel EXCEPT ![i] = IF over THEN [w.ch EXCEPT !.conn = 0] ELSE w.ch]
    BY Zenon DEF Telnetd!ServeBusy, Telnetd!Owner
  <2>2. session' = [session EXCEPT ![c] = IF over THEN [wrote |-> 0, exited |-> FALSE]
                                          ELSE [wrote |-> talked.wrote + Len(text), exited |-> exited]]
    BY Zenon DEF Telnetd!ServeBusy, Telnetd!Owner, Telnetd!NoSession
  <2>3. client' = [client EXCEPT ![c] = IF over THEN Telnetd!Over
                                        ELSE [was EXCEPT !.in = IF reads THEN 0 ELSE was.in, !.out = w.out]]
    BY Zenon DEF Telnetd!ServeBusy, Telnetd!Owner
  <2> QED BY <2>1, <2>2, <2>3, Zenon
<1>2. /\ c \in 1..Conns /\ c # 0 /\ channel[i] \in ChannelRec /\ Len(channel[i].used) <= Queue
      /\ channel[i].used \in Seq(ServerBytes) /\ channel[i].failed \in BOOLEAN
  <2>1. channel[i] \in ChannelRec /\ Len(channel[i].used) <= Queue
    BY DEF SlotsGood, SlotTypes
  <2>2. channel[i].used \in Seq(ServerBytes) /\ channel[i].failed \in BOOLEAN /\ c \in 0..Conns
    BY <2>1, ChannelParts
  <2>3. c # 0
    BY DEF Telnetd!ServeBusy, Telnetd!Busy, Telnetd!Owner
  <2>4. c \in 1..Conns
    <3> HIDE DEF c
    <3> QED BY <2>2, <2>3, ServerAssumption
  <2> QED BY <2>1, <2>2, <2>3, <2>4
<1>3. /\ was \in PeerRec /\ talked \in TalkRec /\ Peered(c, was) /\ Served(was) /\ Queued(c, channel[i], was, talked)
  BY <1>2 DEF SlotsGood, SlotTypes, SlotBytes, SlotOwners
<1>4. /\ was.in \in Nat /\ was.keys \in Nat /\ was.taken \in Nat /\ was.out \in Seq(ServerBytes)
      /\ Len(was.out) <= Wire /\ talked.wrote \in Nat /\ talked.exited \in BOOLEAN
      /\ was.state \in {"open", "gone"} /\ Keys[c] \in Nat /\ was.in + was.keys <= Keys[c]
  BY <1>2, <1>3, ServerAssumption DEF PeerRec, TalkRec, Peered, Served
<1>5. size \in Nat
  <2>1. fed \in Nat
    BY <1>4
  <2> HIDE DEF fed
  <2>2. fed * Reply \in Nat
    BY <1>a, <2>1
  <2> QED BY <2>2
<1>6. gone \in BOOLEAN /\ lost \in BOOLEAN /\ exited \in BOOLEAN
  BY <1>4
<1> HIDE DEF size, lost
<1>7. text \in Seq(ServerBytes) /\ Len(text) = size /\ Follows(c, talked.wrote, text)
  <2>1. \A k \in 1..size : <<c, talked.wrote + k>> \in ServerBytes
    BY <1>2, <1>4, <1>5 DEF ServerBytes
  <2>2. text \in Seq(ServerBytes)
    BY <1>5, <2>1
  <2>3. Len(text) = size /\ \A k \in 1..size : text[k] = <<c, talked.wrote + k>>
    BY <1>5
  <2> HIDE DEF text
  <2> QED BY <2>2, <2>3 DEF Follows
<1>8. before \in ChannelRec /\ before.used = channel[i].used /\ before.conn = c
  <2>1. (channel[i].failed \/ lost) \in BOOLEAN
    BY <1>2, <1>6
  <2> HIDE DEF c
  <2>2. before.conn = channel[i].conn /\ before \in ChannelRec /\ before.used = channel[i].used
    <3>1. PICK q, failed : q = before /\ failed = (channel[i].failed \/ lost)
      OBVIOUS
    <3>2. q = [channel[i] EXCEPT !.failed = failed] /\ failed \in BOOLEAN /\ channel[i] \in ChannelRec
      BY <1>2, <2>1, <3>1
    <3>3. q \in ChannelRec /\ q.conn = channel[i].conn /\ q.used = channel[i].used
      BY <3>2 DEF ChannelRec
    <3> HIDE DEF before
    <3> QED BY <3>1, <3>3
  <2> QED BY <2>2 DEF c
<1> HIDE DEF text, before, fed
<1>9. /\ w.ch \in ChannelRec /\ w.ch.conn = c /\ Len(w.ch.used) <= Queue
      /\ w.out \in Seq(ServerBytes) /\ Len(w.out) <= Wire
      /\ gone => w.out = was.out
      /\ /\ Follows(c, was.taken, was.out) /\ Follows(c, was.taken + Len(was.out), before.used)
         /\ Follows(c, was.taken + Len(was.out) + Len(before.used), text)
         => /\ Follows(c, was.taken, w.out)
            /\ ~w.ch.failed => /\ Follows(c, was.taken + Len(w.out), w.ch.used)
                               /\ Len(w.out) + Len(w.ch.used) = Len(was.out) + Len(before.used) + Len(text)
  <2>1. Len(before.used) <= Queue
    BY <1>2, <1>8
  <2>2. /\ was.taken \in Nat /\ was.out \in Seq(ServerBytes) /\ text \in Seq(ServerBytes) /\ gone \in BOOLEAN
        /\ Len(was.out) <= Wire /\ before \in ChannelRec
    BY <1>4, <1>6, <1>7, <1>8
  <2> HIDE DEF gone, c
  <2>3. /\ w.ch \in ChannelRec /\ w.ch.conn = before.conn /\ Len(w.ch.used) <= Queue
        /\ w.out \in Seq(ServerBytes) /\ Len(w.out) <= Wire
        /\ gone => w.out = was.out
        /\ /\ Follows(c, was.taken, was.out) /\ Follows(c, was.taken + Len(was.out), before.used)
           /\ Follows(c, was.taken + Len(was.out) + Len(before.used), text)
           => /\ Follows(c, was.taken, w.out)
              /\ ~w.ch.failed => /\ Follows(c, was.taken + Len(w.out), w.ch.used)
                                 /\ Len(w.out) + Len(w.ch.used) = Len(was.out) + Len(before.used) + Len(text)
    <3>1. w = Telnetd!Sent(before, was.out, gone, text)
      BY DEF w
    <3> HIDE DEF w, was
    <3>2. Carries(c, was.taken, before, was.out, gone, text, w)
      BY <2>1, <2>2, <3>1, SentInOrder, Zenon
    <3> QED BY <3>2 DEF Carries
  <2> QED BY <1>8, <2>3
<1> HIDE DEF w
<1>10. channel[i].conn \in {0, c} /\ (channel[i].conn = 0 => ~Served(client[c]))
  BY <1>2
<1>11. CASE over
  <2> DEFINE ch == [w.ch EXCEPT !.conn = 0]
             cl == [state |-> "closed", in |-> 0, keys |-> 0, out |-> <<>>, taken |-> 0]
             talk == [wrote |-> 0, exited |-> FALSE]
  <2>1. channel' = [channel EXCEPT ![i] = ch] /\ client' = [client EXCEPT ![c] = cl] /\ session' = [session EXCEPT ![c] = talk]
    <3>1. Telnetd!Over = cl
      BY DEF Telnetd!Over, Telnetd!Peer
    <3> HIDE DEF cl, over, c
    <3> QED BY <1>1, <1>11, <3>1
  <2>2. ch \in ChannelRec /\ ch.conn = 0 /\ Len(ch.used) <= Queue
    <3>1. ch \in ChannelRec /\ ch.conn = 0 /\ ch.used = w.ch.used
      BY <1>9, ChannelFreed
    <3> QED BY <1>9, <3>1
  <2>3. talk \in TalkRec
    BY DEF TalkRec
  <2>4. cl \in PeerRec /\ ~Served(cl)
    BY DEF PeerRec, PeerStates, Served
  <2>5. Peered(c, cl)
    BY <1>4, <1>a DEF Peered, Follows
  <2> HIDE DEF ch, cl, talk
  <2> QED BY <1>2, <1>10, <2>1, <2>2, <2>3, <2>4, <2>5, SlotMoves
<1>12. CASE ~over
  <2>0. PICK n, k : n = (IF reads THEN 0 ELSE was.in) /\ k = talked.wrote + Len(text)
    OBVIOUS
  <2> DEFINE cl == [was EXCEPT !.in = n, !.out = w.out]
             talk == [wrote |-> k, exited |-> exited]
  <2>1. channel' = [channel EXCEPT ![i] = w.ch] /\ client' = [client EXCEPT ![c] = cl] /\ session' = [session EXCEPT ![c] = talk]
    BY <1>1, <1>12, <2>0
  <2>2. n \in Nat /\ n <= was.in /\ k \in Nat
    BY <1>4, <1>5, <1>7, <2>0
  <2>3. /\ cl \in PeerRec /\ cl.state = was.state /\ cl.in = n /\ cl.keys = was.keys
        /\ cl.out = w.out /\ cl.taken = was.taken
    BY <1>3, <1>9, <2>2 DEF PeerRec
  <2>4. talk \in TalkRec /\ talk.wrote = k
    BY <1>6, <2>2 DEF TalkRec
  <2>5. ~w.ch.failed
    BY <1>12
  <2> HIDE DEF cl, talk, over
  <2>6. CASE was.state = "open"
    <3>1. /\ talked.wrote = was.taken + Len(was.out) + Len(before.used)
          /\ Follows(c, was.taken, was.out) /\ Follows(c, was.taken + Len(was.out), before.used)
      BY <1>3, <1>8, <2>6 DEF Peered, Queued
    <3>2. /\ Follows(c, was.taken, w.out) /\ Follows(c, was.taken + Len(w.out), w.ch.used)
          /\ Len(w.out) + Len(w.ch.used) = Len(was.out) + Len(before.used) + Len(text)
      BY <1>7, <1>9, <2>5, <3>1
    <3>3. k = was.taken + Len(w.out) + Len(w.ch.used)
      <4>1. /\ Len(w.out) \in Nat /\ Len(w.ch.used) \in Nat /\ Len(was.out) \in Nat /\ Len(before.used) \in Nat
            /\ Len(text) \in Nat
        <5>1. \A q \in Seq(ServerBytes) : Len(q) \in Nat
          OBVIOUS
        <5>2. \A q \in ChannelRec : q.used \in Seq(ServerBytes)
          BY ChannelParts
        <5> HIDE DEF was
        <5> QED BY <1>4, <1>7, <1>8, <1>9, <5>1, <5>2
      <4>2. was.taken \in Nat /\ talked.wrote = was.taken + Len(was.out) + Len(before.used)
            /\ k = talked.wrote + Len(text)
        BY <1>4, <2>0, <3>1
      <4>3. Len(w.out) + Len(w.ch.used) = Len(was.out) + Len(before.used) + Len(text)
        BY <3>2
      <4>4. PICK a, b, d, e, f, g, h \in Nat :
              /\ a = was.taken /\ b = Len(was.out) /\ d = Len(before.used) /\ e = Len(text)
              /\ f = Len(w.out) /\ g = Len(w.ch.used) /\ h = talked.wrote
        BY <1>4, <4>1, <4>2
      <4>5. h = a + b + d /\ k = h + e /\ f + g = b + d + e
        BY <4>2, <4>3, <4>4
      <4>6. k = a + f + g
        BY <4>5
      <4> QED BY <4>4, <4>6
    <3>4. Peered(c, cl)
      BY <1>4, <1>9, <2>2, <2>3, <2>6, <3>2 DEF Peered
    <3>5. Queued(c, w.ch, cl, talk)
      BY <2>3, <2>4, <3>2, <3>3 DEF Queued
    <3>6. Served(cl)
      BY <2>3, <2>6 DEF Served
    <3> QED BY <1>2, <1>9, <1>10, <2>1, <2>3, <2>4, <3>4, <3>5, <3>6, SlotMoves
  <2>7. CASE was.state = "gone"
    <3>1. w.out = <<>>
      BY <1>3, <1>9, <2>7 DEF Peered
    <3>2. Peered(c, cl)
      BY <1>4, <1>a, <2>2, <2>3, <2>7, <3>1 DEF Peered, Follows
    <3>3. Queued(c, w.ch, cl, talk) /\ Served(cl)
      BY <2>3, <2>7 DEF Queued, Served
    <3> QED BY <1>2, <1>9, <1>10, <2>1, <2>3, <2>4, <3>2, <3>3, SlotMoves
  <2> QED BY <1>4, <2>6, <2>7
<1> QED BY <1>11, <1>12

\* A server that stops closes every slot.
LEMMA CloseGood ==
  ASSUME SlotsGood, Telnetd!CloseServer
  PROVE  SlotsGood'
<1> DEFINE closed == [state |-> "closed", in |-> 0, keys |-> 0, out |-> <<>>, taken |-> 0]
<1>1. /\ channel' = [i \in 1..Slots |-> [channel[i] EXCEPT !.conn = 0]] /\ UNCHANGED session
      /\ client' = [c \in 1..Conns |-> IF client[c].state \in {"open", "gone", "waiting"} THEN closed ELSE client[c]]
  BY DEF Telnetd!CloseServer, Telnetd!Over, Telnetd!Peer
<1>2. closed \in PeerRec /\ ~Served(closed) /\ closed.state = "closed"
  BY DEF PeerRec, PeerStates, Served
<1>3. \A c \in 1..Conns : Peered(c, closed)
  BY ServerAssumption DEF Peered, Follows
<1> HIDE DEF closed
<1>4. /\ \A c \in 1..Conns : client'[c] \in PeerRec /\ Peered(c, client'[c]) /\ ~Served(client'[c])
  BY <1>1, <1>2, <1>3 DEF SlotsGood, SlotTypes, SlotBytes, Served
<1>5. \A i \in 1..Slots : channel'[i] \in ChannelRec /\ channel'[i].conn = 0 /\ channel'[i].used = channel[i].used
  <2> SUFFICES ASSUME NEW i \in 1..Slots
               PROVE  channel'[i] \in ChannelRec /\ channel'[i].conn = 0 /\ channel'[i].used = channel[i].used
    OBVIOUS
  <2>1. channel'[i] = [channel[i] EXCEPT !.conn = 0] /\ channel[i] \in ChannelRec
    BY <1>1 DEF SlotsGood, SlotTypes
  <2> QED BY <2>1, ChannelFreed
<1>6. SlotTypes'
  <2>1. client' \in [1..Conns -> PeerRec]
    BY <1>1, <1>4
  <2>2. channel' \in [1..Slots -> ChannelRec]
    BY <1>1, <1>5
  <2> QED BY <1>1, <1>5, <2>1, <2>2 DEF SlotsGood, SlotTypes
<1>7. SlotOwners'
  <2>1. \A c \in 1..Conns : c # 0
    BY ServerAssumption
  <2> QED BY <1>4, <1>5, <2>1 DEF SlotOwners, Served
<1>8. SlotBytes'
  <2>1. \A i \in 1..Slots, c \in 1..Conns : channel'[i].conn # c
    BY <1>5, ServerAssumption
  <2> QED BY <1>4, <2>1 DEF SlotBytes, Peered, Queued, Follows
<1> QED BY <1>6, <1>7, <1>8 DEF SlotsGood

\* Every step of the server and of its clients keeps the invariant.
LEMMA ServerStep == ServerGood /\ Telnetd!ServerNext => ServerGood'
<1> SUFFICES ASSUME ServerGood, Telnetd!ServerNext PROVE ServerGood'
  OBVIOUS
<1>a. Slots \in Nat /\ Slots > 0
  BY ServerAssumption
<1>t. /\ server.pc \in {"poll", "serve", "close", "done"} /\ server.at \in 1..Slots /\ server.ready \subseteq 0..Slots
      /\ server.stopping \in BOOLEAN
  BY DEF ServerGood, ServerRec
<1>u. UNCHANGED <<channel, session, client>> => SlotsGood'
  <2> SUFFICES ASSUME UNCHANGED <<channel, session, client>> PROVE SlotsGood'
    OBVIOUS
  <2>1. SlotTypes'
    BY DEF ServerGood, SlotsGood, SlotTypes
  <2>2. SlotOwners'
    BY DEF ServerGood, SlotsGood, SlotOwners, Served
  <2>3. SlotBytes'
    BY DEF ServerGood, SlotsGood, SlotBytes, Peered, Queued, Follows
  <2> QED BY <2>1, <2>2, <2>3 DEF SlotsGood
<1>1. CASE Telnetd!Poll
  <2>1. CASE server' = [server EXCEPT !.pc = "close"] /\ UNCHANGED <<channel, session, client>>
    <3>1. server' \in ServerRec
      BY <2>1 DEF ServerGood, ServerRec
    <3> QED BY <1>u, <2>1, <3>1 DEF ServerGood
  <2>2. ASSUME NEW ready, ready \subseteq 0..Slots, NEW stopping \in BOOLEAN, Telnetd!Polled(ready, stopping)
        PROVE  ServerGood'
    <3>1. server' \in ServerRec
      <4>1. server' = [pc |-> "serve", at |-> 1, ready |-> ready \ {0}, stopping |-> stopping]
        BY <2>2 DEF Telnetd!Polled, Telnetd!Listener
      <4>2. ready \ {0} \in SUBSET (0..Slots) /\ 1 \in 1..Slots
        BY <1>a, <2>2
      <4> QED BY <2>2, <4>1, <4>2 DEF ServerRec
    <3>2. SlotsGood'
      BY <1>u, <2>2, AcceptGood DEF Telnetd!Polled, ServerGood
    <3> QED BY <3>1, <3>2 DEF ServerGood
  <2>3. CASE \E ready \in SUBSET (0..Slots) : \E stopping \in BOOLEAN : Telnetd!Polled(ready, stopping)
    BY <2>2, <2>3
  <2>4. \/ server' = [server EXCEPT !.pc = "close"] /\ UNCHANGED <<channel, session, client>>
        \/ \E ready \in SUBSET (0..Slots) : \E stopping \in BOOLEAN : Telnetd!Polled(ready, stopping)
    <3> DEFINE polled == (IF Telnetd!Waiting # {} THEN {Telnetd!Listener} ELSE {}) \cup
                       {i \in 1..Slots : Telnetd!Busy(i) /\ (client[Telnetd!Owner(i)].in > 0
                                                             \/ client[Telnetd!Owner(i)].state = "gone")}
    <3>1. polled \in SUBSET (0..Slots)
      BY <1>a DEF Telnetd!Listener
    <3>2. \/ server' = [server EXCEPT !.pc = "close"] /\ UNCHANGED <<channel, session, client>>
          \/ Telnetd!Polled(polled, FALSE)
          \/ \E junk \in SUBSET (0..Slots) : Telnetd!Polled(junk, TRUE)
      BY <1>1 DEF Telnetd!Poll
    <3> HIDE DEF polled
    <3> QED BY <3>1, <3>2
  <2> QED BY <2>1, <2>3, <2>4
<1>2. CASE Telnetd!Serve
  <2> DEFINE i == server.at
  <2>1. i \in 1..Slots /\ (Telnetd!ServeFree(i) \/ Telnetd!ServeBusy(i)) /\ Telnetd!Next_(i)
    BY <1>t, <1>2 DEF Telnetd!Serve, Telnetd!ServeSlot
  <2>2. SlotsGood'
    BY <1>u, <2>1, ServeGood DEF Telnetd!ServeFree, ServerGood
  <2>3. server' \in ServerRec
    <3>0. PICK a, q, r : a = (IF i = Slots THEN 1 ELSE i + 1) /\ q = (IF i = Slots THEN "poll" ELSE "serve")
                         /\ r = server.ready \ {i}
      OBVIOUS
    <3>1. server' = [server EXCEPT !.at = a, !.ready = r, !.pc = q]
      BY <2>1, <3>0 DEF Telnetd!Next_
    <3>2. a \in 1..Slots /\ q \in {"poll", "serve", "close", "done"} /\ r \in SUBSET (0..Slots)
      BY <1>a, <1>t, <3>0
    <3>3. server \in ServerRec
      BY DEF ServerGood
    <3> QED BY <3>1, <3>2, <3>3 DEF ServerRec
  <2> QED BY <2>2, <2>3 DEF ServerGood
<1>3. CASE Telnetd!CloseServer
  <2>1. server' \in ServerRec
    BY <1>3 DEF Telnetd!CloseServer, ServerGood, ServerRec
  <2> QED BY <1>3, <2>1, CloseGood DEF ServerGood
<1>4. CASE Telnetd!Clients
  BY <1>4, ClientsGood DEF ServerGood
<1> QED BY <1>1, <1>2, <1>3, <1>4 DEF Telnetd!ServerNext, Telnetd!Server

\* What the server promises follows.
LEMMA ServerReturns == ServerGood => Telnetd!EachItsOwn /\ Telnetd!OneSlotEach
<1> SUFFICES ASSUME ServerGood PROVE Telnetd!EachItsOwn /\ Telnetd!OneSlotEach
  OBVIOUS
<1>1. Telnetd!EachItsOwn
  BY DEF ServerGood, SlotsGood, SlotBytes, Peered, Follows, Telnetd!EachItsOwn
<1>2. Telnetd!OneSlotEach
  BY DEF ServerGood, SlotsGood, SlotOwners, Served, Telnetd!OneSlotEach, Telnetd!Busy, Telnetd!Owner
<1> QED BY <1>1, <1>2

-----------------------------------------------------------------------------
(* The local session.                                                      *)

HostPcs == {"start", "command", "load", "modes", "loop", "feed", "finish", "save", "restore", "done"}
HostRec == [pc : HostPcs, options : Options, stopping : BOOLEAN, failed : BOOLEAN, result : 0..3]
InputRec == [all : Inputs, at : Nat, held : Nat, eof : BOOLEAN]
SessRec == [draft : Seq(STRING), lf : BOOLEAN, exited : BOOLEAN, status : {0, 3}]
HistRec == [ring : Seq(Seq(STRING)), file : Seq(Seq(STRING)), read : Nat]
LocalTypes == host \in HostRec /\ input \in InputRec /\ sess \in SessRec /\ hist \in HistRec

\* What the loop holds was read, and was not more than it asks for.
LocalInput ==
  /\ input.at <= Len(input.all) /\ input.held <= input.at /\ input.held <= Local!Prefetch
  /\ handed \subseteq 0..Len(input.all)
\* The modes of the terminal are taken on the way to the loop.
LocalTerm == term \in {"host", "raw"} /\ (term = "raw" => host.pc \in {"loop", "feed", "finish", "save", "restore"})

Among(e, s) == \E k \in 1..Len(s) : s[k] = e
\* The ring has every line of the file that was read, unless it is full; the file
\* is the old one until it is saved.
LocalHist ==
  /\ Len(hist.ring) <= Kept /\ hist.read <= Len(Saved)
  /\ Len(hist.ring) < Kept => \A k \in 1..hist.read : Among(Saved[k], hist.ring)
  /\ host.pc \in {"modes", "loop", "feed", "finish", "save"} /\ Local!Has("history") => hist.read = Len(Saved)
  /\ hist.file = Saved \/ (host.pc \in {"restore", "done"} /\ hist.file = hist.ring /\ hist.read = Len(Saved))

LocalGood == LocalTypes /\ LocalInput /\ LocalTerm /\ LocalHist

\* The host with other values in some of its fields is one.
LEMMA HostSet ==
  ASSUME host \in HostRec
  PROVE  /\ \A pc \in HostPcs :
              [host EXCEPT !.pc = pc] \in HostRec
         /\ \A stopping \in BOOLEAN :
              [host EXCEPT !.stopping = stopping] \in HostRec
         /\ \A pc \in HostPcs, failed \in BOOLEAN :
              [host EXCEPT !.pc = pc, !.failed = failed] \in HostRec
         /\ \A pc \in HostPcs, result \in 0..3 :
              [host EXCEPT !.pc = pc, !.result = result] \in HostRec
<1>1. \A q \in HostRec, pc \in HostPcs : [q EXCEPT !.pc = pc] \in HostRec
  BY DEF HostRec
<1>2. \A q \in HostRec, stopping \in BOOLEAN : [q EXCEPT !.stopping = stopping] \in HostRec
  BY DEF HostRec
<1>3. \A q \in HostRec, failed \in BOOLEAN : [q EXCEPT !.failed = failed] \in HostRec
  BY DEF HostRec
<1>4. \A q \in HostRec, result \in 0..3 : [q EXCEPT !.result = result] \in HostRec
  BY DEF HostRec
<1> QED BY <1>1, <1>2, <1>3, <1>4, Zenon

\* So is its input.
LEMMA InputSet ==
  ASSUME input \in InputRec
  PROVE  /\ \A held \in Nat :
              [input EXCEPT !.held = held] \in InputRec
         /\ \A eof \in BOOLEAN :
              [input EXCEPT !.eof = eof] \in InputRec
         /\ \A at \in Nat, held \in Nat :
              [input EXCEPT !.at = at, !.held = held] \in InputRec
<1>1. \A q \in InputRec, at \in Nat : [q EXCEPT !.at = at] \in InputRec
  BY DEF InputRec
<1>2. \A q \in InputRec, held \in Nat : [q EXCEPT !.held = held] \in InputRec
  BY DEF InputRec
<1>3. \A q \in InputRec, eof \in BOOLEAN : [q EXCEPT !.eof = eof] \in InputRec
  BY DEF InputRec
<1> QED BY <1>1, <1>2, <1>3, Zenon

\* And the session.
LEMMA SessSet ==
  ASSUME sess \in SessRec
  PROVE  /\ \A lf \in BOOLEAN :
              [sess EXCEPT !.lf = lf] \in SessRec
         /\ \A status \in {0, 3} :
              [sess EXCEPT !.status = status] \in SessRec
         /\ \A lf \in BOOLEAN, draft \in Seq(STRING) :
              [sess EXCEPT !.lf = lf, !.draft = draft] \in SessRec
<1>1. \A q \in SessRec, draft \in Seq(STRING) : [q EXCEPT !.draft = draft] \in SessRec
  BY DEF SessRec
<1>2. \A q \in SessRec, lf \in BOOLEAN : [q EXCEPT !.lf = lf] \in SessRec
  BY DEF SessRec
<1>3. \A q \in SessRec, status \in {0, 3} : [q EXCEPT !.status = status] \in SessRec
  BY DEF SessRec
<1> QED BY <1>1, <1>2, <1>3, Zenon

\* And the history.
LEMMA HistSet ==
  ASSUME hist \in HistRec
  PROVE  /\ \A ring \in Seq(Seq(STRING)) :
              [hist EXCEPT !.ring = ring] \in HistRec
         /\ \A file \in Seq(Seq(STRING)) :
              [hist EXCEPT !.file = file] \in HistRec
         /\ \A ring \in Seq(Seq(STRING)), read \in Nat :
              [hist EXCEPT !.ring = ring, !.read = read] \in HistRec
<1>1. \A q \in HistRec, ring \in Seq(Seq(STRING)) : [q EXCEPT !.ring = ring] \in HistRec
  BY DEF HistRec
<1>2. \A q \in HistRec, file \in Seq(Seq(STRING)) : [q EXCEPT !.file = file] \in HistRec
  BY DEF HistRec
<1>3. \A q \in HistRec, read \in Nat : [q EXCEPT !.read = read] \in HistRec
  BY DEF HistRec
<1> QED BY <1>1, <1>2, <1>3, Zenon

\* An entry that is added to the ring drives out an old one only when the ring is full.
LEMMA AddedKeeps ==
  ASSUME NEW ring \in Seq(Seq(STRING)), NEW entered \in Seq(STRING), Len(ring) <= Kept
  PROVE  LET new == Local!Added(ring, entered) IN
         /\ new \in Seq(Seq(STRING)) /\ Len(new) <= Kept /\ Len(ring) <= Len(new)
         /\ Len(new) < Kept => /\ Among(entered, new)
                               /\ \A e : Among(e, ring) => Among(e, new)
<1> DEFINE all == Append(ring, entered)
<1>k. Kept \in Nat \ {0}
  BY LocalAssumption
<1>1. CASE ring # <<>> /\ Local!Last(ring) = entered
  <2>1. Local!Added(ring, entered) = ring
    BY <1>1 DEF Local!Added
  <2>2. Among(entered, ring)
    <3>1. Len(ring) \in 1..Len(ring) /\ ring[Len(ring)] = entered
      BY <1>1 DEF Local!Last
    <3> QED BY <3>1 DEF Among
  <2> QED BY <2>1, <2>2
<1>2. CASE ~(ring # <<>> /\ Local!Last(ring) = entered)
  <2>0. /\ all \in Seq(Seq(STRING)) /\ Len(all) = Len(ring) + 1 /\ all[Len(ring) + 1] = entered
        /\ \A k \in 1..Len(ring) : all[k] = ring[k]
    OBVIOUS
  <2>1. CASE Len(all) > Kept
    <3>1. Local!Added(ring, entered) = Tail(all)
      BY <1>2, <2>1 DEF Local!Added
    <3>2. Len(ring) = Kept
      BY <1>k, <2>0, <2>1
    <3>3. Tail(all) \in Seq(Seq(STRING)) /\ Len(Tail(all)) = Len(ring)
      <4>1. all \in Seq(Seq(STRING)) /\ Len(all) = Len(ring) + 1 /\ Len(ring) \in Nat
        BY <2>0
      <4> HIDE DEF all
      <4>2. all # <<>>
        BY <4>1
      <4> QED BY <4>1, <4>2
    <3> QED BY <1>k, <3>1, <3>2, <3>3
  <2>2. CASE ~(Len(all) > Kept)
    <3>1. Local!Added(ring, entered) = all
      BY <1>2, <2>2 DEF Local!Added
    <3>2. Among(entered, all) /\ \A e : Among(e, ring) => Among(e, all)
      <4> HIDE DEF all
      <4>1. Len(ring) + 1 \in 1..Len(all) /\ \A k \in 1..Len(ring) : k \in 1..Len(all)
        BY <2>0
      <4> QED BY <2>0, <4>1 DEF Among
    <3>3. Len(all) <= Kept /\ Len(ring) <= Len(all)
      BY <1>k, <2>0, <2>2
    <3> HIDE DEF all
    <3> QED BY <2>0, <3>1, <3>2, <3>3
  <2> QED BY <2>1, <2>2
<1> QED BY <1>1, <1>2

LEMMA LocalStarts == Local!HostInit => LocalGood
<1> SUFFICES ASSUME Local!HostInit PROVE LocalGood
  OBVIOUS
<1>1. PICK o \in Options, bytes \in Inputs : Local!HostStart(o, bytes)
  BY DEF Local!HostInit
<1>2. /\ host = [pc |-> "start", options |-> o, stopping |-> FALSE, failed |-> FALSE, result |-> 0]
      /\ term = "host" /\ input = [all |-> bytes, at |-> 0, held |-> 0, eof |-> FALSE]
      /\ sess = [draft |-> <<>>, lf |-> FALSE, exited |-> FALSE, status |-> 0]
      /\ handed = {} /\ hist = [ring |-> <<>>, file |-> Saved, read |-> 0]
  BY <1>1 DEF Local!HostStart
<1>3. bytes \in Seq(STRING) /\ Saved \in Seq(Seq(STRING)) /\ Kept \in Nat \ {0} /\ ReadAhead \in Nat \ {0}
  BY LocalAssumption
<1>4. LocalTypes
  <2>1. host \in HostRec
    BY <1>2 DEF HostRec, HostPcs
  <2>2. input \in InputRec
    BY <1>2 DEF InputRec
  <2>3. sess \in SessRec
    BY <1>2 DEF SessRec
  <2>4. hist \in HistRec
    BY <1>2, <1>3 DEF HistRec
  <2> QED BY <2>1, <2>2, <2>3, <2>4 DEF LocalTypes
<1>5. LocalInput
  BY <1>2, <1>3 DEF LocalInput, Local!Prefetch
<1>6. LocalTerm
  BY <1>2 DEF LocalTerm
<1>7. LocalHist
  BY <1>2, <1>3 DEF LocalHist
<1> QED BY <1>4, <1>5, <1>6, <1>7 DEF LocalGood

\* Before the loop: the options, the command, the history file and the modes.
LEMMA LocalBegins ==
  ASSUME LocalGood, Local!Start \/ Local!GivenCommand \/ Local!Modes
  PROVE  LocalGood'
<1>t. host \in HostRec /\ input \in InputRec /\ sess \in SessRec /\ hist \in HistRec
  BY DEF LocalGood, LocalTypes
<1>1. /\ UNCHANGED <<input, handed, hist>>
      /\ host' \in HostRec /\ host'.options = host.options
      /\ host.pc \in {"start", "command", "modes"}
      /\ host'.pc \in {"done", "command", "load", "loop"}
      /\ host'.pc = "loop" => host.pc = "modes"
      /\ host'.pc # "loop" => term' = term
      /\ term' \in {"host", "raw"} \/ term' = term
  <2>1. CASE Local!Start
    <3>1. /\ UNCHANGED <<term, input, handed, hist>> /\ host.pc = "start"
          /\ \/ \E n \in 0..3 : host' = [host EXCEPT !.pc = "done", !.result = n]
             \/ \E q \in {"command", "load"} : host' = [host EXCEPT !.pc = q]
      BY <2>1 DEF Local!Start, Local!HostAt, Local!HostTo, Local!Returns
    <3>2. CASE \E n \in 0..3 : host' = [host EXCEPT !.pc = "done", !.result = n]
      <4>1. PICK n \in 0..3 : host' = [host EXCEPT !.pc = "done", !.result = n]
        BY <3>2
      <4>2. host' \in HostRec
        BY <1>t, <4>1, HostSet DEF HostPcs
      <4>3. host'.options = host.options /\ host'.pc = "done"
        BY <1>t, <4>1 DEF HostRec
      <4> QED BY <3>1, <4>2, <4>3
    <3>3. CASE \E q \in {"command", "load"} : host' = [host EXCEPT !.pc = q]
      <4>1. PICK q \in {"command", "load"} : host' = [host EXCEPT !.pc = q]
        BY <3>3
      <4>2. host' \in HostRec
        BY <1>t, <4>1, HostSet DEF HostPcs
      <4>3. host'.options = host.options /\ host'.pc = q
        BY <1>t, <4>1 DEF HostRec
      <4> QED BY <3>1, <4>1, <4>2, <4>3
    <3> QED BY <3>1, <3>2, <3>3
  <2>2. CASE Local!GivenCommand
    <3>1. PICK n \in {0, 3} : host' = [host EXCEPT !.pc = "done", !.result = n]
      BY <2>2 DEF Local!GivenCommand, Local!Returns
    <3>2. UNCHANGED <<term, input, handed, hist>> /\ host.pc = "command"
      BY <2>2 DEF Local!GivenCommand, Local!HostAt
    <3>3. host' \in HostRec
      <4>1. n \in 0..3 /\ "done" \in HostPcs
        BY DEF HostPcs
      <4> QED BY <1>t, <3>1, <4>1, HostSet
    <3>4. host'.options = host.options /\ host'.pc = "done"
      BY <1>t, <3>1 DEF HostRec
    <3> QED BY <3>2, <3>3, <3>4
  <2>3. CASE Local!Modes
    <3>1. /\ UNCHANGED <<input, handed, hist>> /\ host.pc = "modes"
          /\ \/ host' = [host EXCEPT !.pc = "loop"] /\ (term' = term \/ term' = "raw")
             \/ host' = [host EXCEPT !.pc = "done", !.result = 2] /\ term' = term
      BY <2>3 DEF Local!Modes, Local!HostAt, Local!HostTo, Local!Returns
    <3>2. CASE host' = [host EXCEPT !.pc = "loop"] /\ (term' = term \/ term' = "raw")
      <4>1. host' \in HostRec
        BY <1>t, <3>2, HostSet DEF HostPcs
      <4>2. host'.options = host.options /\ host'.pc = "loop"
        BY <1>t, <3>2 DEF HostRec
      <4> QED BY <3>1, <3>2, <4>1, <4>2
    <3>3. CASE host' = [host EXCEPT !.pc = "done", !.result = 2] /\ term' = term
      <4>1. 2 \in 0..3 /\ "done" \in HostPcs
        BY DEF HostPcs
      <4>2. host' \in HostRec
        BY <1>t, <3>3, <4>1, HostSet
      <4>3. host'.options = host.options /\ host'.pc = "done"
        BY <1>t, <3>3 DEF HostRec
      <4> QED BY <3>1, <3>3, <4>2, <4>3
    <3> QED BY <3>1, <3>2, <3>3
  <2> QED BY <2>1, <2>2, <2>3
<1>2. sess' \in SessRec
  <2>1. CASE Local!Start \/ Local!Modes
    BY <1>t, <2>1 DEF Local!Start, Local!Modes
  <2>2. CASE Local!GivenCommand
    BY <1>t, <2>2, SessSet DEF Local!GivenCommand
  <2> QED BY <2>1, <2>2
<1>3. LocalTypes' /\ LocalInput' /\ LocalTerm'
  BY <1>t, <1>1, <1>2 DEF LocalGood, LocalTypes, LocalInput, LocalTerm, Local!Prefetch, Local!Has
<1>4. LocalHist'
  BY <1>1 DEF LocalGood, LocalHist, Local!Has
<1> QED BY <1>3, <1>4 DEF LocalGood

\* One line of the history file after the other goes into the ring.
LEMMA LocalLoads ==
  ASSUME LocalGood, Local!LoadHistory
  PROVE  LocalGood'
<1>t. host \in HostRec /\ input \in InputRec /\ sess \in SessRec /\ hist \in HistRec
  BY DEF LocalGood, LocalTypes
<1>1. host.pc = "load" /\ UNCHANGED <<term, input, sess, handed>>
  BY DEF Local!LoadHistory, Local!HostAt
<1>2. Saved \in Seq(Seq(STRING)) /\ Kept \in Nat /\ hist.file = Saved
  BY <1>1, LocalAssumption DEF LocalGood, LocalHist
<1>3. CASE Local!Has("history") /\ hist.read < Len(hist.file)
  <2> DEFINE entered == hist.file[hist.read + 1]
             new == Local!Added(hist.ring, entered)
             n == hist.read + 1
  <2>1. UNCHANGED host /\ hist' = [hist EXCEPT !.ring = new, !.read = n]
    BY <1>3 DEF Local!LoadHistory
  <2>2. /\ hist.ring \in Seq(Seq(STRING)) /\ hist.read \in Nat /\ n \in Nat /\ n \in 1..Len(Saved)
        /\ entered = Saved[n] /\ entered \in Seq(STRING)
    BY <1>t, <1>2, <1>3 DEF HistRec
  <2>3. Len(hist.ring) <= Kept /\ (Len(hist.ring) < Kept => \A k \in 1..hist.read : Among(Saved[k], hist.ring))
    BY DEF LocalGood, LocalHist
  <2>4. /\ new \in Seq(Seq(STRING)) /\ Len(new) <= Kept /\ Len(hist.ring) <= Len(new)
        /\ Len(new) < Kept => /\ Among(entered, new)
                              /\ \A e : Among(e, hist.ring) => Among(e, new)
    BY <2>2, <2>3, AddedKeeps
  <2>5. n <= Len(Saved) /\ \A k \in 1..n : k = n \/ k \in 1..hist.read
    BY <2>2
  <2> HIDE DEF new, n, entered
  <2>6. hist' \in HistRec
    BY <1>t, <2>1, <2>2, <2>4, HistSet
  <2>7. hist'.ring = new /\ hist'.read = n /\ hist'.file = hist.file
    BY <1>t, <2>1 DEF HistRec
  <2>8. Len(new) < Kept => \A k \in 1..n : Among(Saved[k], new)
    <3>1. Len(new) < Kept => Len(hist.ring) < Kept
      BY <1>2, <2>2, <2>4
    <3> QED BY <2>2, <2>3, <2>4, <2>5, <3>1
  <2>9. LocalHist'
    BY <1>1, <1>2, <2>1, <2>4, <2>5, <2>7, <2>8 DEF LocalHist
  <2>10. LocalTypes' /\ LocalInput' /\ LocalTerm'
    BY <1>t, <1>1, <2>1, <2>6 DEF LocalGood, LocalTypes, LocalInput, LocalTerm, Local!Prefetch, Local!Has
  <2> QED BY <2>9, <2>10 DEF LocalGood
<1>4. CASE ~(Local!Has("history") /\ hist.read < Len(hist.file))
  <2>1. host' = [host EXCEPT !.pc = "modes"] /\ UNCHANGED hist
    BY <1>4 DEF Local!LoadHistory, Local!HostTo
  <2>2. host' \in HostRec
    BY <1>t, <2>1, HostSet DEF HostPcs
  <2>3. host'.pc = "modes" /\ host'.options = host.options
    BY <1>t, <2>1 DEF HostRec
  <2>4. Local!Has("history") => hist.read = Len(Saved)
    BY <1>t, <1>2, <1>4 DEF LocalGood, LocalHist, HistRec
  <2>5. LocalHist'
    BY <1>2, <2>1, <2>3, <2>4 DEF LocalGood, LocalHist, Local!Has
  <2>6. LocalTypes' /\ LocalInput' /\ LocalTerm'
    BY <1>t, <1>1, <2>1, <2>2, <2>3 DEF LocalGood, LocalTypes, LocalInput, LocalTerm, Local!Prefetch, Local!Has
  <2> QED BY <2>5, <2>6 DEF LocalGood
<1> QED BY <1>3, <1>4

\* The loop reads no more than it asks for.
LEMMA LocalReads ==
  ASSUME LocalGood, Local!Read
  PROVE  LocalGood'
<1>t. host \in HostRec /\ input \in InputRec /\ sess \in SessRec /\ hist \in HistRec
  BY DEF LocalGood, LocalTypes
<1>1. /\ host.pc = "loop" /\ UNCHANGED <<term, sess, handed, hist>>
      /\ \/ \E n \in 1..Local!Prefetch : /\ input.at + n <= Len(input.all) /\ host' = [host EXCEPT !.pc = "feed"]
                                         /\ input' = [input EXCEPT !.at = input.at + n, !.held = n]
         \/ input' = [input EXCEPT !.eof = TRUE] /\ host' = [host EXCEPT !.pc = "finish"]
  BY DEF Local!Read, Local!HostAt, Local!HostTo
<1>2. /\ host' \in HostRec /\ host'.pc \in {"feed", "finish"} /\ host'.options = host.options
  <2>1. PICK q \in {"feed", "finish"} : host' = [host EXCEPT !.pc = q]
    BY <1>1
  <2>2. host' \in HostRec
    BY <1>t, <2>1, HostSet DEF HostPcs
  <2> QED BY <1>t, <2>1, <2>2 DEF HostRec
<1>3. Local!Prefetch \in Nat
  BY LocalAssumption DEF Local!Prefetch
<1>4. /\ input' \in InputRec /\ input'.all = input.all /\ input'.at <= Len(input.all)
      /\ input'.held <= input'.at /\ input'.held <= Local!Prefetch
  <2>1. CASE \E n \in 1..Local!Prefetch : /\ input.at + n <= Len(input.all)
                                          /\ input' = [input EXCEPT !.at = input.at + n, !.held = n]
    <3>1. PICK n \in 1..Local!Prefetch : /\ input.at + n <= Len(input.all)
                                         /\ input' = [input EXCEPT !.at = input.at + n, !.held = n]
      BY <2>1
    <3>0. PICK a : a = input.at + n
      OBVIOUS
    <3>2. n \in Nat /\ a \in Nat /\ n <= a /\ n <= Local!Prefetch /\ a <= Len(input.all)
      BY <1>t, <1>3, <3>0, <3>1 DEF InputRec
    <3>3. input' = [input EXCEPT !.at = a, !.held = n]
      BY <3>0, <3>1
    <3>4. input' \in InputRec
      BY <1>t, <3>2, <3>3, InputSet
    <3>5. input'.all = input.all /\ input'.at = a /\ input'.held = n
      BY <1>t, <3>3 DEF InputRec
    <3> QED BY <3>2, <3>4, <3>5
  <2>2. CASE input' = [input EXCEPT !.eof = TRUE]
    <3>1. input' \in InputRec
      BY <1>t, <2>2, InputSet
    <3>2. input'.all = input.all /\ input'.at = input.at /\ input'.held = input.held
      BY <1>t, <2>2 DEF InputRec
    <3> QED BY <3>1, <3>2 DEF LocalGood, LocalInput
  <2> QED BY <1>1, <2>1, <2>2
<1>5. LocalTypes' /\ LocalTerm'
  BY <1>t, <1>1, <1>2, <1>4 DEF LocalGood, LocalTypes, LocalTerm
<1>6. LocalInput'
  <2>1. Local!Prefetch' = Local!Prefetch
    BY <1>2 DEF Local!Prefetch, Local!Has
  <2> QED BY <1>1, <1>4, <2>1 DEF LocalGood, LocalInput
<1>7. LocalHist'
  BY <1>1, <1>2 DEF LocalGood, LocalHist, Local!Has
<1> QED BY <1>5, <1>6, <1>7 DEF LocalGood

\* A program takes what it likes of the input that was not read yet.
LEMMA ExecuteMoves ==
  ASSUME LocalGood, NEW entered, NEW lf \in BOOLEAN, NEW rest \in InputRec,
         rest.all = input.all, rest.at = input.at, Local!Execute(entered, lf, rest)
  PROVE  /\ sess' \in SessRec /\ input' \in InputRec
         /\ input'.all = input.all /\ input'.held = rest.held
         /\ rest.at <= input'.at /\ input'.at <= Len(input.all)
         /\ handed' \subseteq 0..Len(input.all)
<1>t. input \in InputRec /\ sess \in SessRec /\ input.at <= Len(input.all) /\ handed \subseteq 0..Len(input.all)
  BY DEF LocalGood, LocalTypes, LocalInput
<1>n. Len(input.all) \in Nat /\ input.at \in Nat
  BY <1>t, LocalAssumption DEF InputRec
<1>1. PICK status \in {0, 3} :
        /\ sess' = [draft |-> <<>>, lf |-> lf, status |-> status, exited |-> sess.exited \/ entered[1] = Bye]
        /\ \/ /\ handed' = handed \cup {rest.at}
              /\ \E n \in rest.at..Len(rest.all) : input' = [rest EXCEPT !.at = n]
           \/ input' = rest /\ UNCHANGED handed
  BY DEF Local!Execute
<1>2. sess' \in SessRec
  <2>1. (sess.exited \/ entered[1] = Bye) \in BOOLEAN
    BY <1>t DEF SessRec
  <2>2. <<>> \in Seq(STRING)
    OBVIOUS
  <2> QED BY <1>1, <2>1, <2>2 DEF SessRec
<1>3. CASE /\ handed' = handed \cup {rest.at}
           /\ \E n \in rest.at..Len(rest.all) : input' = [rest EXCEPT !.at = n]
  <2>1. PICK n \in rest.at..Len(rest.all) : input' = [rest EXCEPT !.at = n]
    BY <1>3
  <2>2. n \in Nat /\ rest.at <= n /\ n <= Len(input.all)
    BY <1>n
  <2>3. input' \in InputRec /\ input'.all = rest.all /\ input'.held = rest.held /\ input'.at = n
    BY <2>1, <2>2 DEF InputRec
  <2>4. handed' \subseteq 0..Len(input.all)
    BY <1>3, <1>t, <1>n
  <2> QED BY <1>2, <2>2, <2>3, <2>4
<1>4. CASE input' = rest /\ UNCHANGED handed
  BY <1>2, <1>4, <1>t, <1>n
<1> QED BY <1>1, <1>3, <1>4

\* The characters that were read are fed one after the other.
LEMMA LocalFeeds ==
  ASSUME LocalGood, Local!Feed
  PROVE  LocalGood'
<1>t. host \in HostRec /\ input \in InputRec /\ sess \in SessRec /\ hist \in HistRec
  BY DEF LocalGood, LocalTypes
<1>n. /\ input.all \in Seq(STRING) /\ input.at \in Nat /\ input.held \in Nat /\ Local!Prefetch \in Nat
      /\ input.at <= Len(input.all) /\ input.held <= input.at /\ input.held <= Local!Prefetch
  BY <1>t, LocalAssumption DEF InputRec, Local!Prefetch, LocalGood, LocalInput
<1>1. host.pc = "feed" /\ UNCHANGED term
  BY DEF Local!Feed, Local!HostAt
<1>2. CASE input.held = 0 \/ sess.exited
  <2>1. /\ UNCHANGED <<sess, handed, hist>> /\ input' = [input EXCEPT !.held = 0]
        /\ \E failed \in BOOLEAN : host' = [host EXCEPT !.pc = "loop", !.failed = failed]
    BY <1>2 DEF Local!Feed
  <2>2. host' \in HostRec /\ host'.pc = "loop" /\ host'.options = host.options
    <3>1. PICK failed \in BOOLEAN : host' = [host EXCEPT !.pc = "loop", !.failed = failed]
      BY <2>1
    <3>2. host' \in HostRec
      BY <1>t, <3>1, HostSet DEF HostPcs
    <3> QED BY <1>t, <3>1, <3>2 DEF HostRec
  <2>3. input' \in InputRec /\ input'.all = input.all /\ input'.at = input.at /\ input'.held = 0
    BY <1>t, <2>1 DEF InputRec
  <2>4. LocalTypes' /\ LocalTerm' /\ LocalHist'
    BY <1>t, <1>1, <2>1, <2>2, <2>3 DEF LocalGood, LocalTypes, LocalTerm, LocalHist, Local!Has
  <2>5. LocalInput'
    <3>1. Local!Prefetch' = Local!Prefetch
      BY <2>2 DEF Local!Prefetch, Local!Has
    <3> QED BY <1>n, <2>1, <2>3, <3>1 DEF LocalGood, LocalInput
  <2> QED BY <2>4, <2>5 DEF LocalGood
<1>3. CASE ~(input.held = 0 \/ sess.exited)
  <2>0. PICK ch, rest : ch = input.all[input.at - input.held + 1] /\ rest = [input EXCEPT !.held = input.held - 1]
    OBVIOUS
  <2>1. ch \in STRING
    <3>1. input.at - input.held + 1 \in 1..Len(input.all)
      BY <1>n, <1>3
    <3> QED BY <1>n, <2>0, <3>1
  <2>2. /\ rest \in InputRec /\ rest.all = input.all /\ rest.at = input.at
        /\ rest.held <= input.at /\ rest.held <= Local!Prefetch
    <3>0. PICK h : h = input.held - 1
      OBVIOUS
    <3>1. h \in Nat /\ h <= input.at /\ h <= Local!Prefetch
      BY <1>n, <1>3, <3>0
    <3>2. rest = [input EXCEPT !.held = h]
      BY <2>0, <3>0
    <3>3. rest \in InputRec /\ rest.all = input.all /\ rest.at = input.at /\ rest.held = h
      BY <1>t, <3>1, <3>2 DEF InputRec
    <3> QED BY <3>1, <3>3
  <2>3. /\ UNCHANGED host
        /\ \/ input' = rest /\ UNCHANGED <<sess, handed, hist>>
           \/ /\ input' = rest /\ UNCHANGED <<handed, hist>>
              /\ \/ sess' = [sess EXCEPT !.lf = FALSE, !.draft = Append(sess.draft, ch)]
                 \/ sess' = [sess EXCEPT !.lf = ch = "CR"]
           \/ /\ Local!Execute(sess.draft, ch = "CR", rest)
              /\ hist' = hist \/ hist' = [hist EXCEPT !.ring = Local!Added(hist.ring, sess.draft)]
    BY <1>3, <2>0 DEF Local!Feed
  <2>4. /\ sess' \in SessRec /\ input' \in InputRec /\ input'.all = input.all /\ input'.held = rest.held
        /\ input.at <= input'.at /\ input'.at <= Len(input.all) /\ handed' \subseteq 0..Len(input.all)
    <3>h. handed \subseteq 0..Len(input.all)
      BY DEF LocalGood, LocalInput
    <3>1. CASE input' = rest /\ UNCHANGED <<sess, handed, hist>>
      BY <1>t, <1>n, <2>2, <3>1, <3>h
    <3>2. CASE /\ input' = rest /\ UNCHANGED <<handed, hist>>
               /\ \/ sess' = [sess EXCEPT !.lf = FALSE, !.draft = Append(sess.draft, ch)]
                  \/ sess' = [sess EXCEPT !.lf = ch = "CR"]
      <4>1. /\ Append(sess.draft, ch) \in Seq(STRING)
        BY <1>t, <2>1 DEF SessRec
      <4>0. PICK d : d = Append(sess.draft, ch)
        OBVIOUS
      <4>2. PICK b \in BOOLEAN : b = (ch = "CR")
        OBVIOUS
      <4>3. \/ sess' = [sess EXCEPT !.lf = FALSE, !.draft = d]
            \/ sess' = [sess EXCEPT !.lf = b]
        BY <3>2, <4>0, <4>2
      <4>4. d \in Seq(STRING)
        BY <4>0, <4>1
      <4>5. /\ [sess EXCEPT !.lf = b] \in SessRec
            /\ [sess EXCEPT !.lf = FALSE, !.draft = d] \in SessRec
        BY <1>t, <4>2, <4>4, SessSet
      <4>6. sess' \in SessRec
        BY <4>3, <4>5
      <4> QED BY <1>n, <2>2, <3>2, <3>h, <4>6
    <3>3. CASE Local!Execute(sess.draft, ch = "CR", rest)
      <4>1. (ch = "CR") \in BOOLEAN
        OBVIOUS
      <4> QED BY <2>2, <3>3, <4>1, ExecuteMoves
    <3> QED BY <2>3, <3>1, <3>2, <3>3
  <2>5. LocalHist' /\ hist' \in HistRec
    <3>1. CASE hist' = hist
      BY <1>t, <2>3, <3>1 DEF LocalGood, LocalHist, Local!Has
    <3>2. CASE hist' = [hist EXCEPT !.ring = Local!Added(hist.ring, sess.draft)]
      <4>0. PICK new : new = Local!Added(hist.ring, sess.draft)
        OBVIOUS
      <4>1. /\ new \in Seq(Seq(STRING)) /\ Len(new) <= Kept /\ Len(hist.ring) <= Len(new)
            /\ Len(new) < Kept => \A e : Among(e, hist.ring) => Among(e, new)
        <5>1. hist.ring \in Seq(Seq(STRING)) /\ Len(hist.ring) <= Kept /\ sess.draft \in Seq(STRING)
          BY <1>t DEF LocalGood, LocalHist, HistRec, SessRec
        <5> QED BY <4>0, <5>1, AddedKeeps
      <4>2. hist' = [hist EXCEPT !.ring = new]
        BY <3>2, <4>0
      <4>3. hist' \in HistRec
        BY <1>t, <4>1, <4>2, HistSet
      <4>4. hist'.ring = new /\ hist'.read = hist.read /\ hist'.file = hist.file
        BY <1>t, <4>2 DEF HistRec
      <4>5. Len(hist.ring) \in Nat /\ Len(new) \in Nat /\ Kept \in Nat
        BY <1>t, <4>1, LocalAssumption DEF HistRec
      <4>6. Len(new) < Kept => \A k \in 1..hist.read : Among(Saved[k], new)
        <5>1. Len(new) < Kept => Len(hist.ring) < Kept
          BY <4>1, <4>5
        <5> QED BY <4>1, <5>1 DEF LocalGood, LocalHist
      <4> QED BY <1>1, <2>3, <4>1, <4>3, <4>4, <4>6 DEF LocalGood, LocalHist, Local!Has
    <3> QED BY <2>3, <3>1, <3>2
  <2>6. LocalTypes' /\ LocalTerm'
    BY <1>t, <1>1, <2>3, <2>4, <2>5 DEF LocalGood, LocalTypes, LocalTerm
  <2>7. LocalInput'
    <3>1. Local!Prefetch' = Local!Prefetch
      BY <2>3 DEF Local!Prefetch, Local!Has
    <3>2. input'.at \in Nat /\ rest.held \in Nat /\ rest.held <= input'.at
      BY <1>n, <2>2, <2>4 DEF InputRec
    <3> QED BY <2>2, <2>4, <3>1, <3>2 DEF LocalInput
  <2> QED BY <2>5, <2>6, <2>7 DEF LocalGood
<1> QED BY <1>2, <1>3

\* A signal is only noticed, and the loop leaves by the same door whatever ended it.
LEMMA LocalLeaves ==
  ASSUME LocalGood, Local!Signal \/ Local!Leave
  PROVE  LocalGood'
<1>t. host \in HostRec /\ input \in InputRec /\ sess \in SessRec /\ hist \in HistRec
  BY DEF LocalGood, LocalTypes
<1>1. /\ UNCHANGED <<term, input, sess, handed, hist>>
      /\ \/ host' = [host EXCEPT !.stopping = TRUE]
         \/ host.pc = "loop" /\ host' = [host EXCEPT !.pc = "finish"]
  BY DEF Local!Signal, Local!Leave, Local!HostAt, Local!HostTo
<1>2. CASE host' = [host EXCEPT !.stopping = TRUE]
  <2>1. host' \in HostRec
    BY <1>t, <1>2, HostSet
  <2>2. host'.pc = host.pc /\ host'.options = host.options
    BY <1>t, <1>2 DEF HostRec
  <2> QED BY <1>t, <1>1, <2>1, <2>2
          DEF LocalGood, LocalTypes, LocalInput, LocalTerm, LocalHist, Local!Prefetch, Local!Has
<1>3. CASE host.pc = "loop" /\ host' = [host EXCEPT !.pc = "finish"]
  <2>1. host' \in HostRec
    BY <1>t, <1>3, HostSet DEF HostPcs
  <2>2. host'.pc = "finish" /\ host'.options = host.options
    BY <1>t, <1>3 DEF HostRec
  <2>3. LocalTypes' /\ LocalInput' /\ LocalTerm'
    BY <1>t, <1>1, <1>3, <2>1, <2>2 DEF LocalGood, LocalTypes, LocalInput, LocalTerm, Local!Prefetch, Local!Has
  <2>4. LocalHist'
    BY <1>1, <1>3, <2>2 DEF LocalGood, LocalHist, Local!Has
  <2> QED BY <2>3, <2>4 DEF LocalGood
<1> QED BY <1>1, <1>2, <1>3

\* The line that the end of the input leaves open is executed.
LEMMA LocalFinishes ==
  ASSUME LocalGood, Local!Finish
  PROVE  LocalGood'
<1>t. host \in HostRec /\ input \in InputRec /\ sess \in SessRec /\ hist \in HistRec
  BY DEF LocalGood, LocalTypes
<1>1. /\ host.pc = "finish" /\ host' = [host EXCEPT !.pc = "save"] /\ UNCHANGED <<term, hist>>
      /\ UNCHANGED <<input, sess, handed>> \/ Local!Execute(sess.draft, sess.lf, input)
  BY DEF Local!Finish, Local!HostAt, Local!HostTo
<1>2. host' \in HostRec
  BY <1>t, <1>1, HostSet DEF HostPcs
<1>3. host'.pc = "save" /\ host'.options = host.options
  BY <1>t, <1>1 DEF HostRec
<1>4. /\ input.at \in Nat /\ input.held \in Nat /\ input.at <= Len(input.all) /\ input.held <= input.at
      /\ handed \subseteq 0..Len(input.all)
  BY <1>t DEF LocalGood, LocalInput, InputRec
<1>5. /\ sess' \in SessRec /\ input' \in InputRec /\ input'.all = input.all /\ input'.held = input.held
      /\ input.at <= input'.at /\ input'.at <= Len(input.all) /\ handed' \subseteq 0..Len(input.all)
  <2>1. CASE UNCHANGED <<input, sess, handed>>
    BY <1>t, <1>4, <2>1
  <2>2. CASE Local!Execute(sess.draft, sess.lf, input)
    <3>1. sess.lf \in BOOLEAN
      BY <1>t DEF SessRec
    <3> QED BY <1>t, <2>2, <3>1, ExecuteMoves
  <2> QED BY <1>1, <2>1, <2>2
<1>6. LocalTypes' /\ LocalTerm'
  BY <1>t, <1>1, <1>2, <1>3, <1>5 DEF LocalGood, LocalTypes, LocalTerm
<1>7. LocalInput'
  <2>1. Local!Prefetch' = Local!Prefetch
    BY <1>3 DEF Local!Prefetch, Local!Has
  <2>2. input'.at \in Nat /\ input'.held <= input'.at
    BY <1>4, <1>5 DEF InputRec
  <2> QED BY <1>5, <2>1, <2>2 DEF LocalGood, LocalInput
<1>8. LocalHist'
  BY <1>1, <1>3 DEF LocalGood, LocalHist, Local!Has
<1> QED BY <1>6, <1>7, <1>8 DEF LocalGood

\* The history is saved whether or not the output failed.
LEMMA LocalSaves ==
  ASSUME LocalGood, Local!Save
  PROVE  LocalGood'
<1>t. host \in HostRec /\ input \in InputRec /\ sess \in SessRec /\ hist \in HistRec
  BY DEF LocalGood, LocalTypes
<1>1. /\ host.pc = "save" /\ host' = [host EXCEPT !.pc = "restore"] /\ UNCHANGED <<term, input, sess, handed>>
      /\ hist' = IF Local!Has("history") THEN [hist EXCEPT !.file = hist.ring] ELSE hist
  BY DEF Local!Save, Local!HostAt, Local!HostTo
<1>2. host' \in HostRec
  BY <1>t, <1>1, HostSet DEF HostPcs
<1>3. host'.pc = "restore" /\ host'.options = host.options
  BY <1>t, <1>1 DEF HostRec
<1>4. hist.ring \in Seq(Seq(STRING))
  BY <1>t DEF HistRec
<1>5. hist' \in HistRec
  BY <1>t, <1>1, <1>4, HistSet
<1>6. LocalTypes' /\ LocalInput' /\ LocalTerm'
  BY <1>t, <1>1, <1>2, <1>3, <1>5 DEF LocalGood, LocalTypes, LocalInput, LocalTerm, Local!Prefetch, Local!Has
<1>7. LocalHist'
  <2>1. CASE Local!Has("history")
    <3>1. hist'.ring = hist.ring /\ hist'.read = hist.read /\ hist'.file = hist.ring
      BY <1>t, <1>1, <2>1 DEF HistRec
    <3>2. hist.read = Len(Saved)
      BY <1>1, <2>1 DEF LocalGood, LocalHist
    <3> QED BY <1>3, <3>1, <3>2 DEF LocalGood, LocalHist, Local!Has
  <2>2. CASE ~Local!Has("history")
    BY <1>1, <1>3, <2>2 DEF LocalGood, LocalHist, Local!Has
  <2> QED BY <2>1, <2>2
<1> QED BY <1>6, <1>7 DEF LocalGood

\* The terminal has its modes back before the host returns.
LEMMA LocalGivesBack ==
  ASSUME LocalGood, Local!GiveBack
  PROVE  LocalGood'
<1>t. host \in HostRec /\ input \in InputRec /\ sess \in SessRec /\ hist \in HistRec
  BY DEF LocalGood, LocalTypes
<1>1. /\ host.pc = "restore" /\ term' = "host" /\ UNCHANGED <<input, sess, handed, hist>>
      /\ host' = [host EXCEPT !.pc = "done", !.result = IF host.failed THEN 1 ELSE sess.status]
  BY DEF Local!GiveBack, Local!HostAt, Local!Returns
<1>2. PICK n : n = IF host.failed THEN 1 ELSE sess.status
  OBVIOUS
<1>3. n \in 0..3
  BY <1>t, <1>2 DEF SessRec
<1>4. host' = [host EXCEPT !.pc = "done", !.result = n]
  BY <1>1, <1>2
<1>5. host' \in HostRec
  BY <1>t, <1>3, <1>4, HostSet DEF HostPcs
<1>6. host'.pc = "done" /\ host'.options = host.options
  BY <1>t, <1>4 DEF HostRec
<1>7. LocalTypes' /\ LocalInput' /\ LocalTerm'
  BY <1>t, <1>1, <1>5, <1>6 DEF LocalGood, LocalTypes, LocalInput, LocalTerm, Local!Prefetch, Local!Has
<1>8. LocalHist'
  BY <1>1, <1>6 DEF LocalGood, LocalHist, Local!Has
<1> QED BY <1>7, <1>8 DEF LocalGood

\* Every step of the local session keeps the invariant.
LEMMA LocalStep == LocalGood /\ Local!HostNext => LocalGood'
<1> SUFFICES ASSUME LocalGood, Local!HostNext PROVE LocalGood'
  OBVIOUS
<1>1. \/ Local!Start \/ Local!GivenCommand \/ Local!Modes \/ Local!LoadHistory \/ Local!Read \/ Local!Feed
      \/ Local!Signal \/ Local!Leave \/ Local!Finish \/ Local!Save \/ Local!GiveBack \/ Local!HostDone
  BY DEF Local!HostNext, Local!HostRuns
<1>2. CASE Local!HostDone
  BY <1>2 DEF Local!HostDone, Local!hostVars, LocalGood, LocalTypes, LocalInput, LocalTerm, LocalHist,
              Local!Prefetch, Local!Has
<1> QED BY <1>1, <1>2, LocalBegins, LocalLoads, LocalReads, LocalFeeds, LocalLeaves, LocalFinishes, LocalSaves,
           LocalGivesBack

\* A host that is done has given the terminal back, and what the history file
\* held is there as far as there is room.
LEMMA LocalReturns == LocalGood => Local!GivesBack
<1> SUFFICES ASSUME LocalGood, host.pc = "done"
             PROVE  term = "host" /\ (Len(hist.file) < Kept => Local!Range(Saved) \subseteq Local!Range(hist.file))
  BY DEF Local!GivesBack, Local!HostAt
<1>1. term = "host"
  BY DEF LocalGood, LocalTerm
<1>2. ASSUME Len(hist.file) < Kept PROVE Local!Range(Saved) \subseteq Local!Range(hist.file)
  <2>1. CASE hist.file = Saved
    BY <2>1
  <2>2. CASE hist.file = hist.ring /\ hist.read = Len(Saved)
    <3>1. \A k \in 1..Len(Saved) : \E j \in 1..Len(hist.file) : hist.file[j] = Saved[k]
      BY <1>2, <2>2 DEF LocalGood, LocalHist, Among
    <3>2. Saved \in Seq(Seq(STRING)) /\ hist.file \in Seq(Seq(STRING))
      BY LocalAssumption DEF LocalGood, LocalTypes, HistRec
    <3>3. DOMAIN Saved = 1..Len(Saved) /\ DOMAIN hist.file = 1..Len(hist.file)
      BY <3>2
    <3> QED BY <3>1, <3>3 DEF Local!Range
  <2> QED BY <2>1, <2>2 DEF LocalGood, LocalHist
<1> QED BY <1>1, <1>2

-----------------------------------------------------------------------------
(* What the local session has executed of what it was fed.                 *)

\* Strings; the provers are not told that these three are.
Chars == STRING \cup {"CR", "LF", "c"}
RanRec == [line : Seq(Chars), status : {0, 3}]
BeforeLoop == {"start", "command", "load", "modes"}
InLoop == {"loop", "feed", "finish"}
AfterLoop == {"save", "restore", "done"}
\* The draft is what follows the last line break of a text; lf is set by a CR.
OpenEnd(text, draft, lf) ==
  /\ \E from \in 1..(Len(text) + 1) : Local!StartsAt(text, from, Len(text) + 1) /\ draft = SubSeq(text, from, Len(text))
  /\ lf <=> text # <<>> /\ text[Len(text)] = "CR"
\* HasRun, of any sequence of lines.
Ran(q, text) ==
  /\ Len(q) = Cardinality(Local!LineEnds(text))
  /\ \A k \in Local!LineEnds(text) : \A from \in 1..(k - 1) :
       Local!StartsAt(text, from, k) =>
         q[Cardinality({d \in Local!LineEnds(text) : d <= k})].line = SubSeq(text, from, k - 1)
\* Every line that is ended has run, and the draft is the line that is not.
LocalFed ==
  /\ ran \in Seq(RanRec) /\ seen \in Seq(Chars) /\ (ran # <<>> => ran[Len(ran)].status = sess.status)
  /\ host.pc \in BeforeLoop => ran = <<>> /\ seen = <<>> /\ ~host.failed
  /\ host.pc \in BeforeLoop \cup InLoop => Ran(ran, seen) /\ OpenEnd(seen, sess.draft, sess.lf)
  /\ host.pc \in AfterLoop /\ ~Local!Has("command") => Ran(ran, Append(seen, "LF"))
  /\ Local!Has("command") => host.pc \in {"start", "command", "done"}
  /\ host.pc = "command" => Local!Has("command")
  /\ host.pc = "done" /\ ~host.failed /\ ran # <<>> => host.result = ran[Len(ran)].status
\* A program of a batch starts where its line ends: what is left for it is at an end
\* of the input or after an LF.
LocalHands ==
  /\ host.pc = "feed" => ~host.failed
  /\ sess.exited => sess.draft = <<>>
  /\ host.pc = "finish" => host.stopping \/ host.failed \/ sess.exited \/ input.at = Len(input.all)
  /\ ~Local!Interactive /\ ~host.stopping /\ ~host.failed =>
       \A k \in handed : k = Len(input.all) \/ input.all[k] = "LF"
LocalRuns == LocalFed /\ LocalHands

\* How many members a set has does not depend on who counts them.
LEMMA SameSize == \A S : Local!Cardinality(S) = Cardinality(S)
BY DEF Local!Cardinality, Cardinality

LEMMA HasRunIsRan == \A text : Local!HasRun(text) <=> Ran(ran, text)
BY SameSize DEF Local!HasRun, Local!Place, Ran

\* A sequence with another member.
Longer(C, t, q, e) == /\ Len(q) \in Nat /\ t \in Seq(C) /\ Len(t) = Len(q) + 1 /\ t[Len(q) + 1] = e
                      /\ \A j \in 1..Len(q) : t[j] = q[j]
LEMMA Appended ==
  ASSUME NEW C, NEW q \in Seq(C), NEW e \in C
  PROVE  Longer(C, Append(q, e), q, e)
BY DEF Longer

\* A text that grows keeps its breaks.
Grows(t, text, ch, n) ==
  /\ n \in Nat /\ t \in Seq(Chars) /\ Len(t) = n + 1 /\ t[n + 1] = ch /\ \A j \in 1..n : t[j] = text[j]
  /\ \A j \in 1..n : j \in Local!Breaks(t) <=> j \in Local!Breaks(text)
  /\ n + 1 \in Local!Breaks(t) <=> ch \in {"CR", "LF"}
  /\ \A j \in Local!Breaks(t) : j \in 1..(n + 1)
  /\ \A j \in Local!Breaks(text) : j \in 1..n
LEMMA TextGrows ==
  ASSUME NEW text \in Seq(Chars), NEW ch \in Chars, NEW t, t = Append(text, ch), NEW n, n = Len(text)
  PROVE  Grows(t, text, ch, n)
<1>1. n \in Nat /\ t \in Seq(Chars) /\ Len(t) = n + 1 /\ t[n + 1] = ch /\ \A j \in 1..n : t[j] = text[j]
  <2>1. Longer(Chars, t, text, ch)
    BY Appended, Zenon
  <2> QED BY <2>1 DEF Longer
<1>2. \A j \in 1..n : j \in Local!Breaks(t) <=> j \in Local!Breaks(text)
  <2>1. \A j \in 1..n : j \in 1..(n + 1)
    BY <1>1
  <2> QED BY <1>1, <2>1 DEF Local!Breaks
<1>3. n + 1 \in Local!Breaks(t) <=> ch \in {"CR", "LF"}
  <2>1. n + 1 \in 1..(n + 1)
    BY <1>1
  <2> QED BY <1>1, <2>1 DEF Local!Breaks
<1>4. \A j \in Local!Breaks(t) : j \in 1..(n + 1)
  BY <1>1 DEF Local!Breaks
<1>5. \A j \in Local!Breaks(text) : j \in 1..n
  BY DEF Local!Breaks
<1> QED BY <1>1, <1>2, <1>3, <1>4, <1>5 DEF Grows

\* A character ends a line when it is a break and the one before it is not.
LEMMA LineEndsGrow ==
  ASSUME NEW text \in Seq(Chars), NEW ch \in Chars, NEW n, n = Len(text)
  PROVE  /\ Local!LineEnds(text) \subseteq 1..n /\ IsFiniteSet(Local!LineEnds(text))
         /\ Local!LineEnds(Append(text, ch)) =
              IF ch \in {"CR", "LF"} /\ n > 0 /\ n \notin Local!Breaks(text)
              THEN Local!LineEnds(text) \cup {n + 1} ELSE Local!LineEnds(text)
<1>0. PICK t : t = Append(text, ch)
  OBVIOUS
<1>1. /\ n \in Nat
      /\ \A j \in 1..n : j \in Local!Breaks(t) <=> j \in Local!Breaks(text)
      /\ n + 1 \in Local!Breaks(t) <=> ch \in {"CR", "LF"}
      /\ \A j \in Local!Breaks(t) : j \in 1..(n + 1)
      /\ \A j \in Local!Breaks(text) : j \in 1..n
  <2>1. Grows(t, text, ch, n)
    BY <1>0, TextGrows, Zenon
  <2> QED BY <2>1 DEF Grows
<1>2. Local!LineEnds(text) \subseteq 1..n
  BY <1>1 DEF Local!LineEnds
<1>3. IsFiniteSet(Local!LineEnds(text))
  <2>1. n \in Int /\ 1 \in Int
    BY <1>1
  <2>2. IsFiniteSet(1..n)
    BY <2>1, FS_Interval
  <2> QED BY <1>2, <2>2, FS_Subset
<1>4. \A k : k \in Local!LineEnds(t) <=>
               \/ k \in Local!LineEnds(text)
               \/ k = n + 1 /\ ch \in {"CR", "LF"} /\ n > 0 /\ n \notin Local!Breaks(text)
  <2> SUFFICES ASSUME NEW k
               PROVE  k \in Local!LineEnds(t) <=>
                        \/ k \in Local!LineEnds(text)
                        \/ k = n + 1 /\ ch \in {"CR", "LF"} /\ n > 0 /\ n \notin Local!Breaks(text)
    OBVIOUS
  <2>1. CASE k \in 1..n
    <3>1. k # n + 1 /\ (k \in Local!Breaks(t) <=> k \in Local!Breaks(text))
      BY <1>1, <2>1
    <3>2. k > 1 => (k - 1 \in Local!Breaks(t) <=> k - 1 \in Local!Breaks(text))
      <4>1. k > 1 => k - 1 \in 1..n
        BY <1>1, <2>1
      <4> QED BY <1>1, <4>1
    <3> QED BY <3>1, <3>2 DEF Local!LineEnds
  <2>2. CASE k = n + 1
    <3>1. k - 1 = n /\ (k > 1 <=> n > 0) /\ k \notin 1..n
      BY <1>1, <2>2
    <3>2. n > 0 => (n \in Local!Breaks(t) <=> n \in Local!Breaks(text))
      <4>1. n > 0 => n \in 1..n
        BY <1>1
      <4> QED BY <1>1, <4>1
    <3>3. k \notin Local!LineEnds(text)
      BY <1>2, <3>1
    <3>4. k \in Local!Breaks(t) <=> ch \in {"CR", "LF"}
      BY <1>1, <2>2
    <3> QED BY <2>2, <3>1, <3>2, <3>3, <3>4 DEF Local!LineEnds
  <2>3. CASE k \notin 1..n /\ k # n + 1
    <3>1. k \notin 1..(n + 1)
      BY <1>1, <2>3
    <3> QED BY <1>1, <1>2, <2>3, <3>1 DEF Local!LineEnds
  <2> QED BY <2>1, <2>2, <2>3
<1>5. Local!LineEnds(t) = IF ch \in {"CR", "LF"} /\ n > 0 /\ n \notin Local!Breaks(text)
                          THEN Local!LineEnds(text) \cup {n + 1} ELSE Local!LineEnds(text)
  BY <1>4
<1> QED BY <1>0, <1>2, <1>3, <1>5

\* The draft is empty after a break and before the first character, and then only.
LEMMA DraftIsOpen ==
  ASSUME NEW text \in Seq(Chars), NEW draft, NEW lf, OpenEnd(text, draft, lf)
  PROVE  /\ draft \in Seq(Chars)
         /\ draft # <<>> <=> Len(text) > 0 /\ Len(text) \notin Local!Breaks(text)
         /\ draft # <<>> => ~lf
<1>0. PICK n \in Nat : n = Len(text)
  OBVIOUS
<1>1. PICK from \in 1..(n + 1) : Local!StartsAt(text, from, n + 1) /\ draft = SubSeq(text, from, n)
  BY <1>0 DEF OpenEnd
<1>2. draft \in Seq(Chars) /\ Len(draft) = IF from <= n THEN n - from + 1 ELSE 0
  <2>1. from \in 1..(Len(text) + 1) /\ n \in (from - 1)..Len(text)
    BY <1>0
  <2> QED BY <1>1, <2>1, SubSeqProperties
<1>3. draft # <<>> <=> from <= n
  BY <1>2
<1>4. CASE from <= n
  <2>1. n \in from..(n + 1 - 1) /\ n > 0
    BY <1>4
  <2>2. n \notin Local!Breaks(text)
    BY <1>1, <2>1 DEF Local!StartsAt
  <2>3. ~lf
    <3>1. n \in 1..Len(text)
      BY <1>0, <2>1
    <3>2. text[n] # "CR"
      BY <2>2, <3>1 DEF Local!Breaks
    <3> QED BY <1>0, <3>2 DEF OpenEnd
  <2> QED BY <1>0, <1>2, <1>3, <1>4, <2>1, <2>2, <2>3
<1>5. CASE ~(from <= n)
  <2>1. from = n + 1 /\ from - 1 = n /\ (from = 1 <=> n = 0)
    BY <1>5
  <2>2. n = 0 \/ n \in Local!Breaks(text)
    BY <1>1, <2>1 DEF Local!StartsAt
  <2> QED BY <1>0, <1>2, <1>3, <1>5, <2>2
<1> QED BY <1>4, <1>5

\* A break leaves an empty draft behind, any other character is added to it.
LEMMA DraftGrows ==
  ASSUME NEW text \in Seq(Chars), NEW ch \in Chars, NEW n, n = Len(text),
         NEW draft, NEW lf, OpenEnd(text, draft, lf)
  PROVE  /\ ch \in {"CR", "LF"} => OpenEnd(Append(text, ch), <<>>, ch = "CR")
         /\ ch \notin {"CR", "LF"} => OpenEnd(Append(text, ch), Append(draft, ch), FALSE)
<1>a. PICK t : t = Append(text, ch)
  OBVIOUS
<1>1. /\ n \in Nat /\ t \in Seq(Chars) /\ Len(t) = n + 1 /\ t[n + 1] = ch /\ \A j \in 1..n : t[j] = text[j]
      /\ \A j \in 1..n : j \in Local!Breaks(t) <=> j \in Local!Breaks(text)
      /\ n + 1 \in Local!Breaks(t) <=> ch \in {"CR", "LF"}
  <2>1. Grows(t, text, ch, n)
    BY <1>a, TextGrows, Zenon
  <2> QED BY <2>1 DEF Grows
<1>2. t # <<>> /\ t[Len(t)] = ch
  BY <1>1
<1>n. n \in Nat
  BY <1>1
<1>3. PICK from \in 1..(n + 1) : Local!StartsAt(text, from, n + 1) /\ draft = SubSeq(text, from, n)
  BY DEF OpenEnd
<1>4. ASSUME ch \in {"CR", "LF"} PROVE OpenEnd(t, <<>>, ch = "CR")
  <2>1. n + 2 \in 1..(Len(t) + 1) /\ Len(t) + 1 = n + 2 /\ Len(t) = n + 1
    BY <1>1
  <2>2. SubSeq(t, n + 2, Len(t)) = <<>>
    BY <1>1, <2>1
  <2>3. Local!StartsAt(t, n + 2, n + 2)
    <3>1. (n + 2) - 1 = n + 1 /\ \A j : j \notin (n + 2)..(n + 2 - 1)
      BY <1>n
    <3> QED BY <1>1, <1>4, <3>1 DEF Local!StartsAt
  <2>4. (ch = "CR") <=> t # <<>> /\ t[Len(t)] = "CR"
    BY <1>2
  <2> QED BY <2>1, <2>2, <2>3, <2>4 DEF OpenEnd
<1>5. ASSUME ch \notin {"CR", "LF"} PROVE OpenEnd(t, Append(draft, ch), FALSE)
  <2>1. from \in 1..(Len(t) + 1) /\ Len(t) + 1 = n + 2
    BY <1>1
  <2>2. Local!StartsAt(t, from, n + 2)
    <3>0. PICK k : k = n + 2
      OBVIOUS
    <3>1. from = 1 \/ from - 1 \in Local!Breaks(t)
      <4>1. from # 1 => from - 1 \in 1..n
        BY <1>n
      <4> QED BY <1>1, <1>3, <4>1 DEF Local!StartsAt
    <3>2. \A j \in from..(k - 1) : j \notin Local!Breaks(t)
      <4>1. \A j \in from..(k - 1) : j = n + 1 \/ (j \in 1..n /\ j \in from..(n + 1 - 1))
        BY <1>n, <3>0
      <4> QED BY <1>1, <1>3, <1>5, <4>1 DEF Local!StartsAt
    <3>3. Local!StartsAt(t, from, k)
      BY <3>1, <3>2, Zenon DEF Local!StartsAt
    <3> QED BY <3>0, <3>3
  <2>3. SubSeq(t, from, n + 1) = Append(draft, ch)
    <3>1. Append(draft, ch) = SubSeq(text, from, n) \o <<ch>>
      <4>1. draft \in Seq(Chars)
        BY DraftIsOpen
      <4>2. Append(draft, ch) = draft \o <<ch>>
        BY <4>1, AppendIsConcat
      <4> QED BY <1>3, <4>2
    <3>2. SubSeq(t, from, n + 1) = SubSeq(t, from, n) \o <<t[n + 1]>>
      <4>1. PICK k : k = n + 1
        OBVIOUS
      <4>2. t \in Seq(Chars) /\ from \in 1..Len(t) /\ k \in from..Len(t) /\ k - 1 = n
        BY <1>1, <4>1
      <4>3. SubSeq(t, from, k) = SubSeq(t, from, k - 1) \o <<t[k]>>
        BY <4>2, SubSeqRecursiveSecond
      <4> QED BY <4>1, <4>2, <4>3
    <3>3. SubSeq(t, from, n) = SubSeq(text, from, n)
      <4>1. \A j \in from..n : t[j] = text[j]
        BY <1>1
      <4> QED BY <1>1, <4>1
    <3> QED BY <1>1, <3>1, <3>2, <3>3
  <2>4. FALSE <=> t # <<>> /\ t[Len(t)] = "CR"
    BY <1>2, <1>5
  <2> QED BY <1>1, <2>1, <2>2, <2>3, <2>4 DEF OpenEnd
<1> QED BY <1>a, <1>4, <1>5

\* Sequences that agree somewhere have the same part there.
LEMMA SameSlice ==
  ASSUME NEW C, NEW q \in Seq(C), NEW r \in Seq(C), NEW a \in Nat, NEW b \in Int, 0 < a,
         b <= Len(q), b <= Len(r), \A j \in a..b : q[j] = r[j]
  PROVE  SubSeq(q, a, b) = SubSeq(r, a, b)
OBVIOUS

\* The lines of a text are those of a longer one, in the same places.
Stays(t, text, k) ==
  /\ k \in Nat
  /\ {d \in Local!LineEnds(t) : d <= k} = {d \in Local!LineEnds(text) : d <= k}
  /\ \A from \in 1..(k - 1) : /\ Local!StartsAt(t, from, k) <=> Local!StartsAt(text, from, k)
                              /\ SubSeq(t, from, k - 1) = SubSeq(text, from, k - 1)
  /\ Cardinality({d \in Local!LineEnds(text) : d <= k}) \in 1..Cardinality(Local!LineEnds(text))
LEMMA LinesStay ==
  ASSUME NEW text \in Seq(Chars), NEW ch \in Chars, NEW t, t = Append(text, ch), NEW k \in Local!LineEnds(text)
  PROVE  Stays(t, text, k)
<1>0. PICK n : n = Len(text)
  OBVIOUS
<1>1. /\ n \in Nat /\ t \in Seq(Chars) /\ Len(t) = n + 1 /\ \A j \in 1..n : t[j] = text[j]
      /\ \A j \in 1..n : j \in Local!Breaks(t) <=> j \in Local!Breaks(text)
  <2>1. Grows(t, text, ch, n)
    BY <1>0, TextGrows, Zenon
  <2> QED BY <2>1 DEF Grows
<1>2. /\ Local!LineEnds(text) \subseteq 1..n /\ IsFiniteSet(Local!LineEnds(text))
      /\ Local!LineEnds(t) = IF ch \in {"CR", "LF"} /\ n > 0 /\ n \notin Local!Breaks(text)
                             THEN Local!LineEnds(text) \cup {n + 1} ELSE Local!LineEnds(text)
  BY <1>0, LineEndsGrow
<1>3. k \in 1..n /\ k \in Nat /\ ~(n + 1 <= k)
  <2>1. k \in 1..n
    BY <1>2
  <2> QED BY <1>1, <2>1
<1>4. {d \in Local!LineEnds(t) : d <= k} = {d \in Local!LineEnds(text) : d <= k}
  BY <1>2, <1>3
<1>5. ASSUME NEW from \in 1..(k - 1)
      PROVE  /\ Local!StartsAt(t, from, k) <=> Local!StartsAt(text, from, k)
             /\ SubSeq(t, from, k - 1) = SubSeq(text, from, k - 1)
  <2>1. (\A j \in from..(k - 1) : j \in 1..n) /\ (from # 1 => from - 1 \in 1..n) /\ k - 1 \in Nat
    BY <1>1, <1>3
  <2>2. Local!StartsAt(t, from, k) <=> Local!StartsAt(text, from, k)
    BY <1>1, <2>1 DEF Local!StartsAt
  <2>3. \A j \in from..(k - 1) : t[j] = text[j]
    BY <1>1, <2>1
  <2>4. SubSeq(t, from, k - 1) = SubSeq(text, from, k - 1)
    <3>1. PICK last : last = k - 1
      OBVIOUS
    <3>2. last \in Int /\ last <= n
      BY <1>1, <1>3, <3>1
    <3>3. from \in 1..last
      BY <3>1
    <3>4. \A j \in from..last : t[j] = text[j]
      BY <2>3, <3>1
    <3>5. SubSeq(t, from, last) = SubSeq(text, from, last)
      <4>1. Len(text) = n /\ Len(t) = n + 1 /\ t \in Seq(Chars) /\ text \in Seq(Chars)
        BY <1>0, <1>1
      <4>2. from \in Nat /\ 0 < from /\ last <= Len(text) /\ last <= Len(t)
        BY <1>1, <3>2, <3>3, <4>1
      <4> QED BY <3>2, <3>4, <4>1, <4>2, SameSlice, Zenon
    <3> QED BY <3>1, <3>5
  <2> QED BY <2>2, <2>4
<1>6. Cardinality({d \in Local!LineEnds(text) : d <= k}) \in 1..Cardinality(Local!LineEnds(text))
  <2> DEFINE T == {d \in Local!LineEnds(text) : d <= k}
  <2>1. T \subseteq Local!LineEnds(text) /\ k \in T
    BY <1>3
  <2> HIDE DEF T
  <2>2. IsFiniteSet(T) /\ Cardinality(T) <= Cardinality(Local!LineEnds(text))
    BY <1>2, <2>1, FS_Subset
  <2>3. Cardinality(T) \in Nat /\ Cardinality(Local!LineEnds(text)) \in Nat
    BY <1>2, <2>2, FS_CardinalityType
  <2>4. Cardinality(T) # 0
    BY <2>1, <2>2, FS_EmptySet
  <2>5. Cardinality(T) \in 1..Cardinality(Local!LineEnds(text))
    <3>1. PICK a, b \in Nat : a = Cardinality(T) /\ b = Cardinality(Local!LineEnds(text))
      BY <2>3
    <3> QED BY <2>2, <2>4, <3>1
  <2> QED BY <2>5 DEF T
<1> QED BY <1>3, <1>4, <1>5, <1>6 DEF Stays

\* A character that ends no line changes nothing of what has run.
LEMMA RanSame ==
  ASSUME NEW text \in Seq(Chars), NEW ch \in Chars, NEW q, NEW draft, NEW lf, OpenEnd(text, draft, lf), Ran(q, text),
         ch \notin {"CR", "LF"} \/ draft = <<>>
  PROVE  Ran(q, Append(text, ch))
<1>0. PICK t : t = Append(text, ch)
  OBVIOUS
<1>1. draft # <<>> <=> Len(text) > 0 /\ Len(text) \notin Local!Breaks(text)
  BY DraftIsOpen
<1>2. Local!LineEnds(t) = Local!LineEnds(text)
  BY <1>0, <1>1, LineEndsGrow
<1>3. \A k \in Local!LineEnds(text) : Stays(t, text, k)
  BY <1>0, LinesStay, Zenon
<1>4. Len(q) = Cardinality(Local!LineEnds(t))
  BY <1>2 DEF Ran
<1>5. ASSUME NEW k \in Local!LineEnds(t), NEW from \in 1..(k - 1), Local!StartsAt(t, from, k)
      PROVE  q[Cardinality({d \in Local!LineEnds(t) : d <= k})].line = SubSeq(t, from, k - 1)
  <2>1. k \in Local!LineEnds(text) /\ Stays(t, text, k)
    BY <1>2, <1>3
  <2>2. Local!StartsAt(text, from, k) /\ SubSeq(t, from, k - 1) = SubSeq(text, from, k - 1)
    BY <1>5, <2>1 DEF Stays
  <2>3. q[Cardinality({d \in Local!LineEnds(text) : d <= k})].line = SubSeq(text, from, k - 1)
    BY <2>1, <2>2 DEF Ran
  <2> QED BY <1>2, <2>2, <2>3
<1>6. Ran(q, t)
  BY <1>4, <1>5, Zenon DEF Ran
<1> QED BY <1>0, <1>6

\* A break after a draft ends a line, which is the draft.
LEMMA RanMore ==
  ASSUME NEW text \in Seq(Chars), NEW ch \in Chars, ch \in {"CR", "LF"}, NEW q \in Seq(RanRec), NEW draft, NEW lf,
         OpenEnd(text, draft, lf), Ran(q, text), draft # <<>>, NEW r \in RanRec, r.line = draft
  PROVE  Ran(Append(q, r), Append(text, ch))
<1>0. PICK t, more, n, m : t = Append(text, ch) /\ more = Append(q, r) /\ n = Len(text) /\ m = Len(q)
  OBVIOUS
<1>a. n \in Nat /\ m \in Nat /\ ch \in Chars
  <2>1. ch \in Chars
    OBVIOUS
  <2>2. Len(text) \in Nat /\ Len(q) \in Nat
    OBVIOUS
  <2> QED BY <1>0, <2>1, <2>2
<1>1. n > 0 /\ n \notin Local!Breaks(text)
  BY <1>0, DraftIsOpen
<1>2. /\ Local!LineEnds(text) \subseteq 1..n /\ IsFiniteSet(Local!LineEnds(text))
      /\ Local!LineEnds(t) = Local!LineEnds(text) \cup {n + 1}
  BY <1>0, <1>a, <1>1, LineEndsGrow
<1>3. \A k \in Local!LineEnds(text) : Stays(t, text, k)
  BY <1>0, <1>a, LinesStay, Zenon
<1>4. Len(more) = m + 1 /\ more[m + 1] = r /\ \A j \in 1..m : more[j] = q[j]
  <2>1. Longer(RanRec, more, q, r)
    BY <1>0, Appended, Zenon
  <2> QED BY <1>0, <2>1 DEF Longer
<1>5. m = Cardinality(Local!LineEnds(text))
  BY <1>0 DEF Ran
<1>6. Cardinality(Local!LineEnds(t)) = m + 1
  <2>1. n + 1 \notin Local!LineEnds(text)
    BY <1>a, <1>2
  <2>2. Cardinality(Local!LineEnds(text) \cup {n + 1}) = Cardinality(Local!LineEnds(text)) + 1
    BY <1>2, <2>1, FS_AddElement
  <2> QED BY <1>2, <1>5, <2>2
<1>7. ASSUME NEW k \in Local!LineEnds(t), NEW from \in 1..(k - 1), Local!StartsAt(t, from, k)
      PROVE  more[Cardinality({d \in Local!LineEnds(t) : d <= k})].line = SubSeq(t, from, k - 1)
  <2>1. CASE k \in Local!LineEnds(text)
    <3>1. Stays(t, text, k)
      BY <1>3, <2>1
    <3>2. PICK place : place = Cardinality({d \in Local!LineEnds(text) : d <= k})
      OBVIOUS
    <3>3. /\ place = Cardinality({d \in Local!LineEnds(t) : d <= k}) /\ place \in 1..m
          /\ Local!StartsAt(text, from, k) /\ SubSeq(t, from, k - 1) = SubSeq(text, from, k - 1)
      BY <1>5, <1>7, <3>1, <3>2 DEF Stays
    <3>4. q[place].line = SubSeq(text, from, k - 1)
      BY <2>1, <3>2, <3>3 DEF Ran
    <3>5. more[place] = q[place]
      BY <1>4, <3>3
    <3> QED BY <3>3, <3>4, <3>5
  <2>2. CASE k = n + 1
    <3>1. {d \in Local!LineEnds(t) : d <= k} = Local!LineEnds(t)
      <4>1. \A d \in Local!LineEnds(t) : d <= k
        BY <1>a, <1>2, <2>2
      <4> QED BY <4>1
    <3>2. more[Cardinality({d \in Local!LineEnds(t) : d <= k})] = r
      BY <1>4, <1>6, <3>1
    <3>3. PICK start \in 1..(n + 1) : Local!StartsAt(text, start, n + 1) /\ draft = SubSeq(text, start, n)
      BY <1>0 DEF OpenEnd
    <3>4. /\ t \in Seq(Chars) /\ Len(t) = n + 1 /\ \A j \in 1..n : t[j] = text[j]
          /\ \A j \in 1..n : j \in Local!Breaks(t) <=> j \in Local!Breaks(text)
      <4>1. Grows(t, text, ch, n)
        BY <1>0, <1>a, TextGrows, Zenon
      <4> QED BY <4>1 DEF Grows
    <3>5. from = start
      <4>1. from \in 1..n /\ k - 1 = n /\ (n + 1) - 1 = n
        BY <1>a, <2>2
      <4>2. CASE from < start
        <5>1. start - 1 \in from..(k - 1) /\ start - 1 \in 1..n /\ start # 1
          BY <1>a, <4>1, <4>2
        <5>2. start - 1 \in Local!Breaks(text) /\ start - 1 \notin Local!Breaks(t)
          BY <1>7, <3>3, <5>1 DEF Local!StartsAt
        <5> QED BY <3>4, <5>1, <5>2
      <4>3. CASE start < from
        <5>1. from - 1 \in start..((n + 1) - 1) /\ from - 1 \in 1..n /\ from # 1
          BY <1>a, <4>1, <4>3
        <5>2. from - 1 \in Local!Breaks(t) /\ from - 1 \notin Local!Breaks(text)
          BY <1>7, <3>3, <5>1 DEF Local!StartsAt
        <5> QED BY <3>4, <5>1, <5>2
      <4> QED BY <1>a, <4>1, <4>2, <4>3
    <3>6. SubSeq(t, from, k - 1) = SubSeq(text, start, n)
      <4>1. k - 1 = n /\ \A j \in from..n : t[j] = text[j]
        BY <1>a, <2>2, <3>4
      <4>2. Len(text) = n /\ from \in 1..n
        BY <1>0, <1>a, <2>2
      <4> QED BY <3>4, <3>5, <4>1, <4>2
    <3> QED BY <3>2, <3>3, <3>6
  <2> QED BY <1>2, <2>1, <2>2
<1>8. Ran(more, t)
  <2>1. Len(more) = Cardinality(Local!LineEnds(t))
    BY <1>4, <1>6
  <2> QED BY <1>7, <2>1, Zenon DEF Ran
<1> QED BY <1>0, <1>8

LEMMA RunsStart == Local!HostInit => LocalRuns
<1> SUFFICES ASSUME Local!HostInit PROVE LocalRuns
  OBVIOUS
<1>1. PICK o \in Options, bytes \in Inputs : Local!HostStart(o, bytes)
  BY DEF Local!HostInit
<1>2. /\ host = [pc |-> "start", options |-> o, stopping |-> FALSE, failed |-> FALSE, result |-> 0]
      /\ sess = [draft |-> <<>>, lf |-> FALSE, exited |-> FALSE, status |-> 0]
      /\ ran = <<>> /\ seen = <<>> /\ handed = {}
  BY <1>1 DEF Local!HostStart
<1>3. Local!Breaks(<<>>) = {} /\ Local!LineEnds(<<>>) = {}
  BY DEF Local!Breaks, Local!LineEnds
<1>4. Ran(<<>>, <<>>)
  BY <1>3, FS_EmptySet DEF Ran
<1>5. OpenEnd(<<>>, <<>>, FALSE)
  <2>1. 1 \in 1..(Len(<<>>) + 1) /\ SubSeq(<<>>, 1, Len(<<>>)) = <<>>
    OBVIOUS
  <2>2. Local!StartsAt(<<>>, 1, Len(<<>>) + 1)
    BY <1>3 DEF Local!StartsAt
  <2> QED BY <2>1, <2>2 DEF OpenEnd
<1>6. ran \in Seq(RanRec) /\ seen \in Seq(Chars)
  BY <1>2
<1>7. LocalFed
  BY <1>2, <1>4, <1>5, <1>6 DEF LocalFed, BeforeLoop, InLoop, AfterLoop, Local!Has
<1>8. LocalHands
  BY <1>2 DEF LocalHands
<1> QED BY <1>7, <1>8 DEF LocalRuns

\* Most steps run no line: they only come to another part of the host.
LEMMA QuietStep ==
  ASSUME LocalGood, LocalRuns, UNCHANGED <<sess, ran, seen, handed>>,
         input'.all = input.all, host'.options = host.options, host'.failed \in BOOLEAN,
         host'.pc \in BeforeLoop => host.pc \in BeforeLoop /\ ~host'.failed,
         host'.pc \in InLoop => host.pc \in BeforeLoop \cup InLoop,
         host'.pc \in AfterLoop => host.pc \in AfterLoop \cup BeforeLoop,
         Local!Has("command") => host'.pc \in {"start", "command", "done"},
         host'.pc = "command" => Local!Has("command"),
         host'.pc = "done" /\ ~host'.failed /\ ran # <<>> => host'.result = ran[Len(ran)].status,
         host'.pc = "feed" => ~host'.failed,
         host'.pc = "finish" => host'.stopping \/ host'.failed \/ sess.exited \/ input'.at = Len(input.all),
         host.stopping => host'.stopping, host.failed => host'.failed
  PROVE  LocalRuns'
<1>1. /\ ran \in Seq(RanRec) /\ seen \in Seq(Chars) /\ (ran # <<>> => ran[Len(ran)].status = sess.status)
      /\ host.pc \in BeforeLoop => ran = <<>> /\ seen = <<>> /\ ~host.failed
      /\ host.pc \in BeforeLoop \cup InLoop => Ran(ran, seen) /\ OpenEnd(seen, sess.draft, sess.lf)
      /\ host.pc \in AfterLoop /\ ~Local!Has("command") => Ran(ran, Append(seen, "LF"))
  BY DEF LocalRuns, LocalFed
<1>2. host.pc \in BeforeLoop => Ran(ran, Append(seen, "LF"))
  <2> SUFFICES ASSUME host.pc \in BeforeLoop PROVE Ran(ran, Append(seen, "LF"))
    OBVIOUS
  <2>1. seen = <<>> /\ seen \in Seq(Chars) /\ Ran(ran, seen) /\ OpenEnd(seen, sess.draft, sess.lf)
    BY <1>1
  <2>2. ~(Len(seen) > 0)
    BY <2>1
  <2>3. sess.draft = <<>>
    BY <2>1, <2>2, DraftIsOpen
  <2>4. "LF" \in Chars
    BY DEF Chars
  <2> QED BY <2>1, <2>3, <2>4, RanSame
<1>3. Local!Has("command")' = Local!Has("command")
  BY DEF Local!Has
<1>4. LocalFed'
  <2>1. ran' = ran /\ seen' = seen /\ sess' = sess
    OBVIOUS
  <2>2. /\ (ran \in Seq(RanRec))' /\ (seen \in Seq(Chars))' /\ (ran # <<>> => ran[Len(ran)].status = sess.status)'
    BY <1>1, <2>1
  <2>3. host'.pc \in BeforeLoop => ran' = <<>> /\ seen' = <<>> /\ ~host'.failed
    BY <1>1, <2>1
  <2>4. host'.pc \in BeforeLoop \cup InLoop => Ran(ran', seen') /\ OpenEnd(seen', sess'.draft, sess'.lf)
    BY <1>1, <2>1
  <2>5. host'.pc \in AfterLoop /\ ~Local!Has("command") => Ran(ran', Append(seen', "LF"))
    BY <1>1, <1>2, <2>1
  <2> QED BY <1>3, <2>1, <2>2, <2>3, <2>4, <2>5 DEF LocalFed
<1>5. LocalHands'
  BY DEF LocalRuns, LocalHands, Local!Interactive, Local!Has
<1> QED BY <1>4, <1>5 DEF LocalRuns

\* Up to the loop nothing runs but the command of the options.
LEMMA BeginRuns ==
  ASSUME LocalGood, LocalRuns, Local!Start \/ Local!LoadHistory \/ Local!Modes
  PROVE  LocalRuns'
<1>t. host \in HostRec
  BY DEF LocalGood, LocalTypes
<1>1. /\ UNCHANGED <<input, sess, ran, seen, handed>>
      /\ \/ UNCHANGED host /\ host.pc = "load"
         \/ \E n \in 0..3 : host.pc \in BeforeLoop /\ host' = [host EXCEPT !.pc = "done", !.result = n]
         \/ host.pc = "start" /\ host' = [host EXCEPT !.pc = IF Local!Has("command") THEN "command" ELSE "load"]
         \/ \E q \in {"modes", "loop"} : host.pc \in {"load", "modes"} /\ host' = [host EXCEPT !.pc = q]
  <2>1. CASE Local!Start
    BY <2>1 DEF Local!Start, Local!HostAt, Local!HostTo, Local!Returns, BeforeLoop
  <2>2. CASE Local!LoadHistory
    BY <2>2 DEF Local!LoadHistory, Local!HostAt, Local!HostTo
  <2>3. CASE Local!Modes
    <3>1. UNCHANGED <<input, sess, ran, seen, handed>> /\ host.pc = "modes"
      BY <2>3 DEF Local!Modes, Local!HostAt
    <3>2. host' = [host EXCEPT !.pc = "done", !.result = 2] \/ host' = [host EXCEPT !.pc = "loop"]
      BY <2>3 DEF Local!Modes, Local!HostTo, Local!Returns
    <3>3. 2 \in 0..3
      OBVIOUS
    <3> QED BY <3>1, <3>2, <3>3 DEF BeforeLoop
  <2> QED BY <2>1, <2>2, <2>3
<1>2. /\ host.pc \in BeforeLoop /\ ran = <<>> /\ ~host.failed
      /\ Local!Has("command") => host.pc \in {"start", "command", "done"}
      /\ host.pc = "command" => Local!Has("command")
  BY <1>1 DEF LocalRuns, LocalFed, BeforeLoop
<1>3. /\ host'.options = host.options /\ host'.failed = host.failed /\ host'.stopping = host.stopping
      /\ \/ host'.pc = "load" /\ host.pc = "load"
         \/ host'.pc = "done"
         \/ host.pc = "start" /\ host'.pc = IF Local!Has("command") THEN "command" ELSE "load"
         \/ host.pc \in {"load", "modes"} /\ host'.pc \in {"modes", "loop"}
  BY <1>t, <1>1 DEF HostRec
<1>4. input'.all = input.all /\ host'.failed \in BOOLEAN
  BY <1>t, <1>1, <1>3 DEF HostRec
<1>5. /\ host'.pc \in {"start", "command", "load", "modes"} => host.pc \in {"start", "command", "load", "modes"}
      /\ Local!Has("command") => host'.pc \in {"start", "command", "done"}
      /\ host'.pc = "command" => Local!Has("command")
      /\ host'.pc \notin {"feed", "finish", "save", "restore"}
  BY <1>2, <1>3 DEF BeforeLoop
<1> QED BY <1>1, <1>2, <1>3, <1>4, <1>5, QuietStep DEF BeforeLoop, InLoop, AfterLoop

\* It runs once, and its result is the host's.
LEMMA CommandRuns ==
  ASSUME LocalGood, LocalRuns, Local!GivenCommand
  PROVE  LocalRuns'
<1>t. host \in HostRec /\ sess \in SessRec
  BY DEF LocalGood, LocalTypes
<1>1. /\ host.pc = "command" /\ UNCHANGED <<input, seen, handed>>
      /\ \E status \in {0, 3} : /\ ran' = <<[line |-> <<"c">>, status |-> status]>>
                                /\ sess' = [sess EXCEPT !.status = status]
                                /\ host' = [host EXCEPT !.pc = "done", !.result = status]
  BY DEF Local!GivenCommand, Local!HostAt, Local!Returns
<1>2. PICK status \in {0, 3} : /\ ran' = <<[line |-> <<"c">>, status |-> status]>>
                               /\ sess' = [sess EXCEPT !.status = status]
                               /\ host' = [host EXCEPT !.pc = "done", !.result = status]
  BY <1>1
<1>3. /\ host'.pc = "done" /\ host'.options = host.options /\ host'.result = status
      /\ host'.failed = host.failed /\ host'.stopping = host.stopping
      /\ sess'.status = status /\ sess'.draft = sess.draft /\ sess'.exited = sess.exited
  BY <1>t, <1>2 DEF HostRec, SessRec
<1>4. ran' \in Seq(RanRec) /\ ran'[Len(ran')].status = status
  <2>1. PICK r : r = [line |-> <<"c">>, status |-> status]
    OBVIOUS
  <2>2. r \in RanRec /\ r.status = status
    <3>1. "c" \in Chars
      BY DEF Chars
    <3>2. <<"c">> \in Seq(Chars)
      BY <3>1
    <3> QED BY <2>1, <3>2 DEF RanRec
  <2>3. ran' = <<r>>
    BY <1>2, <2>1
  <2> QED BY <2>2, <2>3
<1>5. Local!Has("command") /\ Local!Has("command")'
  BY <1>1, <1>3 DEF LocalRuns, LocalFed, Local!Has
<1>6. LocalFed'
  BY <1>1, <1>3, <1>4, <1>5 DEF LocalRuns, LocalFed, BeforeLoop, InLoop, AfterLoop
<1>7. LocalHands'
  BY <1>1, <1>3 DEF LocalRuns, LocalHands, Local!Interactive, Local!Has
<1> QED BY <1>6, <1>7 DEF LocalRuns

\* The loop reads, a signal is noticed, the loop is left: nothing runs.
LEMMA LoopRuns ==
  ASSUME LocalGood, LocalRuns, Local!Read \/ Local!Signal \/ Local!Leave
  PROVE  LocalRuns'
<1>t. host \in HostRec /\ input \in InputRec
  BY DEF LocalGood, LocalTypes
<1>c. /\ Local!Has("command") => host.pc \in {"start", "command", "done"}
      /\ host.pc = "command" => Local!Has("command")
      /\ host.pc \in BeforeLoop => ~host.failed
      /\ host.pc = "done" /\ ~host.failed /\ ran # <<>> => host.result = ran[Len(ran)].status
      /\ host.pc = "feed" => ~host.failed
      /\ host.pc = "finish" => host.stopping \/ host.failed \/ sess.exited \/ input.at = Len(input.all)
  BY DEF LocalRuns, LocalFed, LocalHands
<1>1. CASE Local!Read
  <2>1. /\ host.pc = "loop" /\ ~host.failed /\ UNCHANGED <<sess, ran, seen, handed>>
        /\ \/ \E n \in 1..Local!Prefetch : /\ host' = [host EXCEPT !.pc = "feed"]
                                           /\ input' = [input EXCEPT !.at = input.at + n, !.held = n]
           \/ /\ input.at = Len(input.all)
              /\ input' = [input EXCEPT !.eof = TRUE] /\ host' = [host EXCEPT !.pc = "finish"]
    BY <1>1 DEF Local!Read, Local!HostAt, Local!HostTo, Local!Ends
  <2>2. /\ host'.options = host.options /\ host'.failed = host.failed /\ host'.stopping = host.stopping
        /\ input'.all = input.all
        /\ host'.pc = "feed" \/ (host'.pc = "finish" /\ input'.at = Len(input.all))
    BY <1>t, <2>1 DEF HostRec, InputRec
  <2> QED BY <1>t, <1>c, <2>1, <2>2, QuietStep DEF HostRec, BeforeLoop, InLoop, AfterLoop
<1>2. CASE Local!Signal
  <2>1. host' = [host EXCEPT !.stopping = TRUE] /\ UNCHANGED <<input, sess, ran, seen, handed>>
    BY <1>2 DEF Local!Signal
  <2>2. /\ host'.options = host.options /\ host'.failed = host.failed /\ host'.stopping /\ host'.pc = host.pc
        /\ host'.result = host.result
    BY <1>t, <2>1 DEF HostRec
  <2> QED BY <1>t, <1>c, <2>1, <2>2, QuietStep DEF HostRec, BeforeLoop, InLoop, AfterLoop
<1>3. CASE Local!Leave
  <2>1. /\ host.pc = "loop" /\ (host.stopping \/ sess.exited \/ host.failed)
        /\ host' = [host EXCEPT !.pc = "finish"] /\ UNCHANGED <<input, sess, ran, seen, handed>>
    BY <1>3 DEF Local!Leave, Local!HostAt, Local!HostTo, Local!Ends
  <2>2. /\ host'.options = host.options /\ host'.failed = host.failed /\ host'.stopping = host.stopping
        /\ host'.pc = "finish"
    BY <1>t, <2>1 DEF HostRec
  <2> QED BY <1>t, <1>c, <2>1, <2>2, QuietStep DEF HostRec, BeforeLoop, InLoop, AfterLoop
<1> QED BY <1>1, <1>2, <1>3

\* Nor does anything on the way out, once the last line has.
LEMMA EndRuns ==
  ASSUME LocalGood, LocalRuns, Local!Save \/ Local!GiveBack
  PROVE  LocalRuns'
<1>t. host \in HostRec
  BY DEF LocalGood, LocalTypes
<1>c. /\ Local!Has("command") => host.pc \in {"start", "command", "done"}
      /\ ran # <<>> => ran[Len(ran)].status = sess.status
  BY DEF LocalRuns, LocalFed
<1>1. CASE Local!Save
  <2>1. host.pc = "save" /\ host' = [host EXCEPT !.pc = "restore"] /\ UNCHANGED <<input, sess, ran, seen, handed>>
    BY <1>1 DEF Local!Save, Local!HostAt, Local!HostTo
  <2>2. /\ host'.options = host.options /\ host'.failed = host.failed /\ host'.stopping = host.stopping
        /\ host'.pc = "restore"
    BY <1>t, <2>1 DEF HostRec
  <2> QED BY <1>t, <1>c, <2>1, <2>2, QuietStep DEF HostRec, BeforeLoop, InLoop, AfterLoop
<1>2. CASE Local!GiveBack
  <2>1. /\ host.pc = "restore" /\ UNCHANGED <<input, sess, ran, seen, handed>>
        /\ host' = [host EXCEPT !.pc = "done", !.result = IF host.failed THEN 1 ELSE sess.status]
    BY <1>2 DEF Local!GiveBack, Local!HostAt, Local!Returns
  <2>2. /\ host'.options = host.options /\ host'.failed = host.failed /\ host'.stopping = host.stopping
        /\ host'.pc = "done" /\ (~host.failed => host'.result = sess.status)
    BY <1>t, <2>1 DEF HostRec
  <2> QED BY <1>t, <1>c, <2>1, <2>2, QuietStep DEF HostRec, BeforeLoop, InLoop, AfterLoop
<1> QED BY <1>1, <1>2

\* What runs is the draft, and the session is left without one.
RunsOne(rest, lf, ch) ==
  /\ ran' \in Seq(RanRec) /\ ran' # <<>> /\ ran'[Len(ran')].status = sess'.status
  /\ Ran(ran', Append(seen, ch)) /\ sess'.draft = <<>> /\ sess'.lf = lf
  /\ handed' = handed \/ (Local!Launches /\ handed' = handed \cup {rest.at})
LEMMA ExecuteRuns ==
  ASSUME LocalGood, NEW ch \in {"CR", "LF"}, NEW lf \in BOOLEAN, NEW rest,
         ran \in Seq(RanRec), seen \in Seq(Chars), Ran(ran, seen), OpenEnd(seen, sess.draft, sess.lf),
         sess.draft # <<>>, Local!Execute(sess.draft, lf, rest)
  PROVE  RunsOne(rest, lf, ch)
<1>t. sess \in SessRec
  BY DEF LocalGood, LocalTypes
<1>1. PICK status \in {0, 3} :
        /\ ran' = Append(ran, [line |-> sess.draft, status |-> status])
        /\ \E exited : sess' = [draft |-> <<>>, lf |-> lf, status |-> status, exited |-> exited]
        /\ handed' = handed \/ (Local!Launches /\ handed' = handed \cup {rest.at})
  BY DEF Local!Execute
<1>2. PICK r : r = [line |-> sess.draft, status |-> status]
  OBVIOUS
<1>3. r \in RanRec /\ r.line = sess.draft /\ r.status = status
  <2>1. sess.draft \in Seq(Chars)
    BY DraftIsOpen
  <2> QED BY <1>2, <2>1 DEF RanRec
<1>4. /\ ran' \in Seq(RanRec) /\ ran' # <<>> /\ ran'[Len(ran')] = r
  BY <1>1, <1>2, <1>3
<1>5. Ran(Append(ran, r), Append(seen, ch))
  <2>1. ch \in Chars
    BY DEF Chars
  <2> QED BY <1>3, <2>1, RanMore
<1>6. sess'.draft = <<>> /\ sess'.lf = lf /\ sess'.status = status
  BY <1>1
<1> QED BY <1>1, <1>2, <1>3, <1>4, <1>5, <1>6 DEF RunsOne

\* A line runs when the character that ends it is fed, and only then.
LEMMA FeedRuns ==
  ASSUME LocalGood, LocalRuns, Local!Feed
  PROVE  LocalRuns'
<1>t. host \in HostRec /\ input \in InputRec /\ sess \in SessRec
  BY DEF LocalGood, LocalTypes
<1>n. /\ input.all \in Seq(STRING) /\ input.at \in Nat /\ input.held \in Nat /\ Local!Prefetch \in Nat
      /\ input.at <= Len(input.all) /\ input.held <= input.at /\ input.held <= Local!Prefetch
  BY <1>t, LocalAssumption DEF InputRec, Local!Prefetch, LocalGood, LocalInput
<1>r. /\ ran \in Seq(RanRec) /\ seen \in Seq(Chars) /\ (ran # <<>> => ran[Len(ran)].status = sess.status)
      /\ host.pc = "feed" /\ ~Local!Has("command") /\ ~host.failed
      /\ Ran(ran, seen) /\ OpenEnd(seen, sess.draft, sess.lf)
  BY DEF LocalRuns, LocalFed, LocalHands, InLoop, Local!Feed, Local!HostAt
<1>1. CASE input.held = 0 \/ sess.exited
  <2>1. PICK failed \in BOOLEAN : host' = [host EXCEPT !.pc = "loop", !.failed = failed]
    BY <1>1 DEF Local!Feed
  <2>2. UNCHANGED <<sess, ran, seen, handed>> /\ input' = [input EXCEPT !.held = 0]
    BY <1>1 DEF Local!Feed
  <2>3. /\ host'.options = host.options /\ host'.failed = failed /\ host'.stopping = host.stopping
        /\ host'.pc = "loop" /\ input'.all = input.all
    BY <1>t, <2>1, <2>2 DEF HostRec, InputRec
  <2> QED BY <1>r, <2>2, <2>3, QuietStep DEF BeforeLoop, InLoop, AfterLoop
<1>2. CASE ~(input.held = 0 \/ sess.exited)
  <2>0. PICK ch, rest : ch = input.all[input.at - input.held + 1] /\ rest = [input EXCEPT !.held = input.held - 1]
    OBVIOUS
  <2>1. ch \in Chars
    <3>1. input.at - input.held + 1 \in 1..Len(input.all)
      BY <1>n, <1>2
    <3>2. ch \in STRING
      BY <1>n, <2>0, <3>1
    <3> QED BY <3>2 DEF Chars
  <2>2. rest.all = input.all /\ rest.at = input.at
    BY <1>t, <2>0 DEF InputRec
  <2>3. UNCHANGED host
    BY <1>2 DEF Local!Feed
  <2>4. CASE Local!Drops(ch)
    <3>1. input' = rest /\ UNCHANGED <<sess, ran, seen, handed>>
      BY <1>2, <2>0, <2>4 DEF Local!Feed
    <3>2. /\ host'.options = host.options /\ host'.failed = host.failed /\ host'.stopping = host.stopping
          /\ host'.pc = "feed" /\ host.failed \in BOOLEAN /\ input'.all = input.all
      BY <1>t, <1>r, <2>2, <2>3, <3>1 DEF HostRec
    <3> QED BY <1>r, <3>1, <3>2, QuietStep DEF BeforeLoop, InLoop, AfterLoop
  <2>5. CASE ~Local!Drops(ch)
    <3>1. /\ seen' = Append(seen, ch)
          /\ IF (ch = "CR" \/ (ch = "LF" /\ ~sess.lf)) /\ sess.draft # <<>>
             THEN Local!Execute(sess.draft, ch = "CR", rest)
             ELSE /\ input' = rest /\ UNCHANGED <<ran, handed>>
                  /\ sess' = IF ch \in {"CR", "LF"} THEN [sess EXCEPT !.lf = ch = "CR"]
                             ELSE [sess EXCEPT !.lf = FALSE, !.draft = Append(sess.draft, ch)]
      BY <1>2, <2>0, <2>5 DEF Local!Feed
    <3>2. /\ ch \in {"CR", "LF"} => OpenEnd(Append(seen, ch), <<>>, ch = "CR")
          /\ ch \notin {"CR", "LF"} => OpenEnd(Append(seen, ch), Append(sess.draft, ch), FALSE)
      BY <1>r, <2>1, DraftGrows
    <3>3. sess.draft # <<>> => ~sess.lf
      BY <1>r, DraftIsOpen
    <3>s. seen' \in Seq(Chars)
      BY <1>r, <2>1, <3>1
    <3>4. CASE ch \in {"CR", "LF"} /\ sess.draft # <<>>
      <4>1. Local!Execute(sess.draft, ch = "CR", rest)
        BY <3>1, <3>3, <3>4
      <4>2. PICK lf \in BOOLEAN : lf = (ch = "CR")
        OBVIOUS
      <4>3. RunsOne(rest, lf, ch)
        BY <1>r, <3>4, <4>1, <4>2, ExecuteRuns
      <4>4. /\ ran' \in Seq(RanRec) /\ ran' # <<>> /\ ran'[Len(ran')].status = sess'.status
            /\ Ran(ran', seen') /\ sess'.draft = <<>> /\ sess'.lf = lf
            /\ handed' = handed \/ (Local!Launches /\ handed' = handed \cup {rest.at})
        BY <3>1, <4>3 DEF RunsOne
      <4>5. OpenEnd(seen', sess'.draft, sess'.lf)
        BY <3>1, <3>2, <3>4, <4>2, <4>4
      <4>6. LocalFed'
        BY <1>r, <2>3, <3>s, <4>4, <4>5 DEF LocalFed, BeforeLoop, InLoop, AfterLoop, Local!Has
      <4>7. input'.all = input.all
        <5>1. input' = rest \/ \E n : input' = [rest EXCEPT !.at = n]
          BY <4>1 DEF Local!Execute
        <5>2. rest \in [all : Inputs, at : Nat, held : Int, eof : BOOLEAN]
          BY <1>t, <1>n, <2>0 DEF InputRec
        <5> QED BY <2>2, <5>1, <5>2
      <4>8. Local!Launches /\ ~Local!Interactive => input.all[rest.at] = "LF"
        <5> SUFFICES ASSUME Local!Launches, ~Local!Interactive PROVE input.all[rest.at] = "LF"
          OBVIOUS
        <5>1. Local!Prefetch = 1
          BY DEF Local!Launches, Local!Prefetch
        <5>2. input.at - input.held + 1 = input.at
          BY <1>n, <1>2, <5>1
        <5>3. ch = "LF"
          BY <2>5, <3>4, <5>1 DEF Local!Drops
        <5> QED BY <2>0, <2>2, <5>2, <5>3
      <4>9. LocalHands'
        <5>1. Local!Interactive' = Local!Interactive
          BY <2>3 DEF Local!Interactive, Local!Has
        <5> QED BY <1>r, <2>3, <4>4, <4>7, <4>8, <5>1 DEF LocalRuns, LocalHands
      <4> QED BY <4>6, <4>9 DEF LocalRuns
    <3>5. CASE ~(ch \in {"CR", "LF"} /\ sess.draft # <<>>)
      <4>1. /\ input' = rest /\ UNCHANGED <<ran, handed>>
            /\ sess' = IF ch \in {"CR", "LF"} THEN [sess EXCEPT !.lf = ch = "CR"]
                       ELSE [sess EXCEPT !.lf = FALSE, !.draft = Append(sess.draft, ch)]
        BY <3>1, <3>5
      <4>2. Ran(ran', seen')
        <5>1. Ran(ran, Append(seen, ch))
          BY <1>r, <2>1, <3>5, RanSame
        <5> QED BY <3>1, <4>1, <5>1
      <4>3. /\ sess'.status = sess.status /\ sess'.exited = sess.exited
            /\ ch \in {"CR", "LF"} => sess'.draft = sess.draft /\ sess'.lf = (ch = "CR")
            /\ ch \notin {"CR", "LF"} => sess'.draft = Append(sess.draft, ch) /\ sess'.lf = FALSE
        BY <1>t, <4>1 DEF SessRec
      <4>4. OpenEnd(seen', sess'.draft, sess'.lf)
        <5>1. CASE ch \in {"CR", "LF"}
          <6>1. sess'.draft = <<>>
            BY <3>5, <4>3, <5>1
          <6> QED BY <3>1, <3>2, <4>3, <5>1, <6>1
        <5>2. CASE ch \notin {"CR", "LF"}
          BY <3>1, <3>2, <4>3, <5>2
        <5> QED BY <5>1, <5>2
      <4>5. LocalFed'
        BY <1>r, <2>3, <3>s, <4>1, <4>2, <4>3, <4>4 DEF LocalFed, BeforeLoop, InLoop, AfterLoop, Local!Has
      <4>6. LocalHands'
        BY <1>2, <1>r, <2>2, <2>3, <4>1, <4>3 DEF LocalRuns, LocalHands, Local!Interactive, Local!Has
      <4> QED BY <4>5, <4>6 DEF LocalRuns
    <3> QED BY <3>4, <3>5
  <2> QED BY <2>4, <2>5
<1> QED BY <1>1, <1>2

\* So does the one that the end of the input leaves open.
LEMMA FinishRuns ==
  ASSUME LocalGood, LocalRuns, Local!Finish
  PROVE  LocalRuns'
<1>t. host \in HostRec /\ input \in InputRec /\ sess \in SessRec
  BY DEF LocalGood, LocalTypes
<1>r. /\ ran \in Seq(RanRec) /\ seen \in Seq(Chars) /\ (ran # <<>> => ran[Len(ran)].status = sess.status)
      /\ host.pc = "finish" /\ ~Local!Has("command")
      /\ Ran(ran, seen) /\ OpenEnd(seen, sess.draft, sess.lf)
  BY DEF LocalRuns, LocalFed, InLoop, Local!Finish, Local!HostAt
<1>1. /\ host' = [host EXCEPT !.pc = "save"] /\ UNCHANGED seen
      /\ IF sess.draft = <<>> THEN UNCHANGED <<input, sess, ran, handed>>
         ELSE Local!Execute(sess.draft, sess.lf, input)
  BY DEF Local!Finish, Local!HostTo
<1>2. /\ host'.options = host.options /\ host'.failed = host.failed /\ host'.stopping = host.stopping
      /\ host'.pc = "save"
  BY <1>t, <1>1 DEF HostRec
<1>l. "LF" \in Chars
  BY DEF Chars
<1>i. Local!Interactive' = Local!Interactive
  BY <1>2 DEF Local!Interactive, Local!Has
<1>3. CASE sess.draft = <<>>
  <2>1. UNCHANGED <<input, sess, ran, seen, handed>>
    BY <1>1, <1>3
  <2>2. Ran(ran, Append(seen, "LF"))
    BY <1>r, <1>l, <1>3, RanSame
  <2>3. LocalFed'
    BY <1>r, <1>2, <2>1, <2>2 DEF LocalFed, BeforeLoop, InLoop, AfterLoop, Local!Has
  <2>4. LocalHands'
    BY <1>2, <1>i, <2>1 DEF LocalRuns, LocalHands
  <2> QED BY <2>3, <2>4 DEF LocalRuns
<1>4. CASE sess.draft # <<>>
  <2>1. Local!Execute(sess.draft, sess.lf, input)
    BY <1>1, <1>4
  <2>2. RunsOne(input, sess.lf, "LF")
    <3>1. sess.lf \in BOOLEAN /\ "LF" \in {"CR", "LF"}
      BY <1>t DEF SessRec
    <3> QED BY <1>r, <1>4, <2>1, <3>1, ExecuteRuns
  <2>3. /\ ran' \in Seq(RanRec) /\ ran' # <<>> /\ ran'[Len(ran')].status = sess'.status
        /\ Ran(ran', Append(seen, "LF")) /\ sess'.draft = <<>>
        /\ handed' = handed \/ handed' = handed \cup {input.at}
    BY <2>2 DEF RunsOne
  <2>4. LocalFed'
    BY <1>r, <1>1, <1>2, <2>3 DEF LocalFed, BeforeLoop, InLoop, AfterLoop, Local!Has
  <2>5. input'.all = input.all
    <3>1. input' = input \/ \E n : input' = [input EXCEPT !.at = n]
      BY <2>1 DEF Local!Execute
    <3> QED BY <1>t, <3>1 DEF InputRec
  <2>6. ~host.stopping /\ ~host.failed => input.at = Len(input.all)
    BY <1>r, <1>4 DEF LocalRuns, LocalHands
  <2>7. LocalHands'
    BY <1>2, <1>i, <2>3, <2>5, <2>6 DEF LocalRuns, LocalHands
  <2> QED BY <2>4, <2>7 DEF LocalRuns
<1> QED BY <1>3, <1>4

LEMMA RunsStep ==
  ASSUME LocalGood, LocalRuns, Local!HostNext
  PROVE  LocalRuns'
<1>1. CASE Local!HostRuns
  BY <1>1, BeginRuns, CommandRuns, LoopRuns, FeedRuns, FinishRuns, EndRuns DEF Local!HostRuns
<1>2. CASE Local!Signal
  BY <1>2, LoopRuns
<1>3. CASE Local!HostDone
  BY <1>3 DEF Local!HostDone, Local!hostVars, LocalRuns, LocalFed, LocalHands, Local!Has, Local!Interactive
<1> QED BY <1>1, <1>2, <1>3 DEF Local!HostNext

\* The lines that ran are those of what was fed, and a program has what follows its own.
LEMMA RunsReturn == LocalRuns => Local!RunsWhatWasFed /\ Local!ProgramsGetTheRest
<1> SUFFICES ASSUME LocalRuns PROVE Local!RunsWhatWasFed /\ Local!ProgramsGetTheRest
  OBVIOUS
<1>1. Local!RunsWhatWasFed
  <2>1. host.pc \in {"loop", "feed", "finish"} => Local!HasRun(seen)
    BY HasRunIsRan DEF LocalRuns, LocalFed, InLoop
  <2>2. host.pc \in {"save", "restore", "done"} /\ ~Local!Has("command") => Local!HasRun(Append(seen, "LF"))
    BY HasRunIsRan DEF LocalRuns, LocalFed, AfterLoop
  <2> QED BY <2>1, <2>2 DEF LocalRuns, LocalFed, Local!RunsWhatWasFed, Local!HostAt, Local!Last
<1>2. Local!ProgramsGetTheRest
  BY DEF LocalRuns, LocalHands, Local!ProgramsGetTheRest
<1> QED BY <1>1, <1>2

\* A host that was not started has run nothing.
LEMMA RunsIdle == host.pc = "start" /\ handed = {} => Local!RunsWhatWasFed /\ Local!ProgramsGetTheRest
BY DEF Local!RunsWhatWasFed, Local!ProgramsGetTheRest, Local!HostAt

-----------------------------------------------------------------------------
(* The theorems.                                                           *)

\* What holds of each part in every state of the hosts that run it.
HostsGood ==
  /\ part = "relay" => RelayGood
  /\ part = "pipeline" => PipeGood
  /\ ServerGood
  /\ part = "local" => LocalGood /\ LocalRuns
  /\ part # "local" => host.pc = "start" /\ handed = {}

\* The invariant holds in every state: of a program behind the relay, what each
\* side may still send and which modes are taken; of a pipeline, who holds which
\* end of which pipe; of the server, whose bytes each queue holds; of a session,
\* where its input and its history file are and which lines it has run.
THEOREM HostsInvariance == HostsSpec => []HostsGood
<1>1. HostsInit => HostsGood
  <2> SUFFICES ASSUME HostsInit PROVE HostsGood
    OBVIOUS
  <2>1. /\ part = "relay" => RelayGood
        /\ part = "pipeline" => PipeGood
        /\ ServerGood
        /\ part = "local" => LocalGood /\ LocalRuns
    BY RelayStarts, PipeStarts, ServerStarts, LocalStarts, RunsStart DEF HostsInit
  <2>2. part # "local" => host.pc = "start" /\ handed = {}
    <3>1. part # "local" => Local!HostIdle
      BY DEF HostsInit
    <3> QED BY <3>1 DEF Local!HostIdle, Local!HostStart
  <2> QED BY <2>1, <2>2 DEF HostsGood
<1>2. HostsGood /\ [HostsNext]_allVars => HostsGood'
  <2> SUFFICES ASSUME HostsGood, [HostsNext]_allVars PROVE HostsGood'
    OBVIOUS
  <2>s. UNCHANGED serverState => ServerGood'
    BY DEF HostsGood, serverState, ServerGood, SlotsGood, SlotTypes, SlotOwners, SlotBytes
  <2>l. UNCHANGED <<part, localState>> =>
          (part = "local" => LocalGood /\ LocalRuns)' /\ (part # "local" => host.pc = "start" /\ handed = {})'
    <3> SUFFICES ASSUME UNCHANGED <<part, localState>>
                 PROVE  (part = "local" => LocalGood /\ LocalRuns)' /\ (part # "local" => host.pc = "start" /\ handed = {})'
      OBVIOUS
    <3>1. LocalGood => LocalGood'
      BY DEF localState, LocalGood, LocalTypes, LocalInput, LocalTerm, LocalHist, Local!Prefetch, Local!Has
    <3>2. LocalRuns => LocalRuns'
      BY DEF localState, LocalRuns, LocalFed, LocalHands, Local!Interactive, Local!Has
    <3>3. part' = part /\ host' = host /\ handed' = handed
      BY DEF localState
    <3> QED BY <3>1, <3>2, <3>3 DEF HostsGood
  <2>1. CASE UNCHANGED allVars
    <3>1. UNCHANGED <<part, relayState, pipeState, serverState, localState>>
      BY <2>1 DEF allVars
    <3>2. RelayGood => RelayGood'
      BY <3>1 DEF relayState, RelayGood, RelayPhase, RelayBytes, Relay!RelayTypeOK
    <3>3. PipeGood => PipeGood'
      BY <3>1 DEF pipeState, PipeGood, Pipeline!PipelineTypeOK, PipeModes, PipeClosed, PipeLaunch, PipeStatus,
                  PipeResult, State, Missing, Pipeline!StagesAreInterrupted
    <3> QED BY <2>s, <2>l, <3>1, <3>2, <3>3 DEF HostsGood
  <2>2. CASE HostsNext
    <3>0. part' = part
      BY <2>2 DEF HostsNext
    <3>1. CASE part = "relay" /\ Relay!RelayNext /\ UNCHANGED <<pipeState, serverState, localState, langState>>
      <4>1. RelayGood'
        BY <3>1, RelayStep DEF HostsGood
      <4> QED BY <2>s, <2>l, <3>0, <3>1, <4>1 DEF HostsGood
    <3>2. CASE part = "pipeline" /\ Pipeline!PipelineNext /\ UNCHANGED <<relayState, serverState, localState, langState>>
      <4>1. PipeGood'
        BY <3>2, PipeStep DEF HostsGood
      <4> QED BY <2>s, <2>l, <3>0, <3>2, <4>1 DEF HostsGood
    <3>3. CASE part = "server" /\ Telnetd!ServerNext /\ UNCHANGED <<relayState, pipeState, localState, langState>>
      <4>1. ServerGood'
        BY <3>3, ServerStep DEF HostsGood
      <4> QED BY <2>l, <3>0, <3>3, <4>1 DEF HostsGood
    <3>4. CASE part = "local" /\ Local!HostNext /\ UNCHANGED <<relayState, pipeState, serverState, langState>>
      <4>1. LocalGood' /\ LocalRuns'
        BY <3>4, LocalStep, RunsStep DEF HostsGood
      <4> QED BY <2>s, <3>0, <3>4, <4>1 DEF HostsGood
    <3>5. CASE part = "language" /\ UNCHANGED <<relayState, pipeState, serverState, localState>>
      BY <2>s, <2>l, <3>0, <3>5 DEF HostsGood
    <3> QED BY <2>2, <3>1, <3>2, <3>3, <3>4, <3>5 DEF HostsNext
  <2> QED BY <2>1, <2>2
<1> QED BY <1>1, <1>2, PTL DEF HostsSpec

\* However a program, a pipeline or a session ends, nothing of it is left behind:
\* every child is reaped, every file and pipe closed, the terminal and the
\* handlers are as they were, what the history file held is not lost, and a key
\* that interrupts never reaches a host whose handler would end it.
THEOREM HostsReturn == HostsSpec => []LeavesNothingBehind
<1>1. HostsGood => LeavesNothingBehind
  BY RelayReturns, PipeReturns, LocalReturns DEF HostsGood, LeavesNothingBehind
<1> QED BY <1>1, HostsInvariance, PTL

\* Whoever comes, goes and takes whose slot, a client is sent the beginning of what
\* its own session wrote, in order and without a gap; a local session has run the
\* lines it was fed, each once; and a program of a batch finds its input at what
\* follows its line, or at the end.
THEOREM HostsBytes == HostsSpec => []BytesAreTheirs
<1>1. HostsGood => BytesAreTheirs
  <2> SUFFICES ASSUME HostsGood PROVE BytesAreTheirs
    OBVIOUS
  <2>1. Telnetd!EachItsOwn /\ Telnetd!OneSlotEach
    BY ServerReturns DEF HostsGood
  <2>2. Local!RunsWhatWasFed /\ Local!ProgramsGetTheRest
    BY RunsReturn, RunsIdle DEF HostsGood
  <2> QED BY <2>1, <2>2 DEF BytesAreTheirs
<1> QED BY <1>1, HostsInvariance, PTL

-----------------------------------------------------------------------------
(* A command line: what is executing once the session was asked to leave.   *)

FrameFields == {"kind", "line", "plan", "at", "when", "result", "given"}
IsFrame(f) == DOMAIN f = FrameFields
Stack(q) == \E S : q \in Seq(S)
\* Lines and the files they read: the line that was entered at the bottom, and none
\* with an error below the top.
Frames(q) ==
  /\ Stack(q)
  /\ \A k \in 1..Len(q) : IsFrame(q[k]) /\ (q[k].plan.bad => k = Len(q) /\ q[k].kind = "line")
  /\ q # <<>> => q[1].kind = "line"
\* Who leaves does so from a line without an error, whose result is the status.
Left(q, o) == o.exited /\ q # <<>> => q[Len(q)].result = o.status /\ ~q[Len(q)].plan.bad
IsOutcome(o) == o = [status |-> o.status, exited |-> o.exited, final |-> o.final]
LangGood == IsOutcome(outcome) /\ Frames(calls) /\ Left(calls, outcome)

\* The stack without its top, and with another one.
LEMMA Popped ==
  ASSUME NEW q, Frames(q), q # <<>>
  PROVE  /\ Frames(Language!Front(q)) /\ Len(q) \in Nat \ {0} /\ IsFrame(Language!Last(q))
         /\ Len(Language!Front(q)) = Len(q) - 1 /\ \A k \in 1..(Len(q) - 1) : ~Language!Front(q)[k].plan.bad
<1>1. PICK S : q \in Seq(S)
  BY DEF Frames, Stack
<1>2. Len(q) \in Nat /\ Len(q) > 0
  BY <1>1
<1>3. /\ SubSeq(q, 1, Len(q) - 1) \in Seq(S) /\ Len(SubSeq(q, 1, Len(q) - 1)) = Len(q) - 1
      /\ \A k \in 1..(Len(q) - 1) : SubSeq(q, 1, Len(q) - 1)[k] = q[k]
  <2>1. PICK n \in Nat : n = Len(q) - 1
    BY <1>2
  <2>2. n \in (1 - 1)..Len(q) /\ 1 \in 1..(Len(q) + 1) /\ n + 1 = Len(q)
    BY <1>2, <2>1
  <2>3. SubSeq(q, 1, n) \in Seq(S) /\ Len(SubSeq(q, 1, n)) = n /\ \A k \in 1..n : SubSeq(q, 1, n)[k] = q[k]
    BY <1>1, <2>1, <2>2
  <2> QED BY <2>1, <2>3
<1>4. SubSeq(q, 1, Len(q) - 1) # <<>> => Len(q) - 1 \in Nat \ {0}
  <2>1. PICK f \in Seq(S) : f = SubSeq(q, 1, Len(q) - 1) /\ Len(f) = Len(q) - 1
    BY <1>3
  <2>2. f # <<>> => Len(f) \in Nat \ {0}
    OBVIOUS
  <2> QED BY <2>1, <2>2
<1>5. Language!Front(q) = SubSeq(q, 1, Len(q) - 1) /\ Language!Last(q) = q[Len(q)]
  BY DEF Language!Front, Language!Last
<1>6. ASSUME NEW f, f \in Seq(S), Len(f) = Len(q) - 1, \A k \in 1..(Len(q) - 1) : f[k] = q[k],
             f # <<>> => Len(q) - 1 \in Nat \ {0}
      PROVE  Frames(f) /\ \A k \in 1..(Len(q) - 1) : ~f[k].plan.bad
  <2>0. /\ \A k \in 1..Len(q) : IsFrame(q[k]) /\ (q[k].plan.bad => k = Len(q) /\ q[k].kind = "line")
        /\ q[1].kind = "line"
    BY DEF Frames
  <2>1. \A k \in 1..(Len(q) - 1) : IsFrame(f[k]) /\ ~f[k].plan.bad
    <3> TAKE k \in 1..(Len(q) - 1)
    <3>1. k \in 1..Len(q) /\ k # Len(q) /\ f[k] = q[k]
      BY <1>2, <1>6
    <3> QED BY <2>0, <3>1
  <2>2. f # <<>> => f[1].kind = "line"
    BY <2>0, <1>2, <1>6
  <2>3. Stack(f)
    BY <1>6 DEF Stack
  <2> QED BY <2>1, <2>2, <2>3, <1>6 DEF Frames
<1>7. Frames(SubSeq(q, 1, Len(q) - 1)) /\ \A k \in 1..(Len(q) - 1) : ~SubSeq(q, 1, Len(q) - 1)[k].plan.bad
  BY <1>3, <1>4, <1>6
<1>8. IsFrame(q[Len(q)])
  BY <1>2 DEF Frames
<1> QED BY <1>2, <1>3, <1>5, <1>7, <1>8

LEMMA Pushed ==
  ASSUME NEW q, Frames(q), \A k \in 1..Len(q) : ~q[k].plan.bad,
         NEW f, IsFrame(f), f.plan.bad => f.kind = "line", q = <<>> => f.kind = "line"
  PROVE  Frames(Append(q, f)) /\ Append(q, f) # <<>> /\ Append(q, f)[Len(Append(q, f))] = f
<1>1. PICK S : q \in Seq(S)
  BY DEF Frames, Stack
<1> DEFINE T == S \cup {f}
<1>2. q \in Seq(T) /\ f \in T /\ Len(q) \in Nat
  BY <1>1
<1> HIDE DEF T
<1> DEFINE r == Append(q, f)
<1>3. /\ r \in Seq(T) /\ Len(r) = Len(q) + 1 /\ r[Len(q) + 1] = f
      /\ \A k \in 1..Len(q) : r[k] = q[k]
  BY <1>2
<1>4. r # <<>> /\ (q = <<>> => Len(q) = 0) /\ (q # <<>> => Len(q) > 0)
  BY <1>2, <1>3
<1> HIDE DEF r
<1>5. \A k \in 1..Len(r) : IsFrame(r[k]) /\ (r[k].plan.bad => k = Len(r) /\ r[k].kind = "line")
  <2> TAKE k \in 1..Len(r)
  <2>1. CASE k = Len(r)
    BY <2>1, <1>3
  <2>2. CASE k # Len(r)
    <3>1. k \in 1..Len(q)
      BY <2>2, <1>2, <1>3
    <3> QED BY <3>1, <1>3 DEF Frames
  <2> QED BY <2>1, <2>2
<1>6. r[1].kind = "line"
  <2>1. CASE q = <<>>
    BY <2>1, <1>3, <1>4
  <2>2. CASE q # <<>>
    <3>1. 1 \in 1..Len(q)
      BY <2>2, <1>2, <1>4
    <3> QED BY <2>2, <3>1, <1>3 DEF Frames
  <2> QED BY <2>1, <2>2
<1>7. Frames(r)
  BY <1>3, <1>5, <1>6 DEF Frames, Stack
<1> QED BY <1>3, <1>4, <1>7 DEF r

\* Another top, of the same kind.
LEMMA Replaced ==
  ASSUME NEW q, Frames(q), q # <<>>, NEW f, IsFrame(f), ~f.plan.bad, f.kind = Language!Last(q).kind
  PROVE  LET r == Append(Language!Front(q), f) IN Frames(r) /\ r # <<>> /\ r[Len(r)] = f
<1>1. /\ Frames(Language!Front(q)) /\ Len(q) \in Nat \ {0} /\ Len(Language!Front(q)) = Len(q) - 1
      /\ \A k \in 1..(Len(q) - 1) : ~Language!Front(q)[k].plan.bad
  BY Popped
<1>2. Language!Front(q) = <<>> => f.kind = "line"
  <2>1. Language!Front(q) = <<>> => Len(q) = 1
    BY <1>1
  <2>2. Language!Last(q) = q[Len(q)] /\ q[1].kind = "line"
    BY DEF Language!Last, Frames
  <2> QED BY <2>1, <2>2
<1> QED BY <1>1, <1>2, Pushed

\* A frame that has moved on, with a result.
Moved(f, g, r) == IsFrame(g) /\ g.plan = f.plan /\ g.kind = f.kind /\ g.result = r
LEMMA FrameMoves ==
  ASSUME NEW f, IsFrame(f)
  PROVE  \A a, w, r : /\ Moved(f, [f EXCEPT !.at = a, !.when = w, !.result = r], r)
                      /\ Moved(f, [f EXCEPT !.at = a, !.result = r], r)
                      /\ Moved(f, [f EXCEPT !.at = a], f.result)
BY DEF IsFrame, FrameFields, Moved

\* What a step must do.
LeftAlone == outcome.exited => log' = log /\ x' = x /\ outcome' = outcome
LangStep == LangGood' /\ LeftAlone

LEMMA OnwardGood ==
  ASSUME LangGood, Language!AtLine, ~Language!Top.plan.bad, NEW r
  PROVE  LET q == Language!Onward(calls, r) IN Frames(q) /\ q # <<>> /\ q[Len(q)].result = r /\ ~q[Len(q)].plan.bad
<1>1. calls # <<>> /\ Frames(calls) /\ Language!Top = Language!Last(calls)
  BY DEF Language!AtLine, LangGood, Language!Top
<1>2. IsFrame(Language!Top)
  BY <1>1, Popped
<1> DEFINE f == [Language!Top EXCEPT !.at = Language!GroupEnd + 1, !.when = Language!Plan[Language!GroupEnd].next, !.result = r]
<1>3. IsFrame(f) /\ f.plan = Language!Top.plan /\ f.kind = Language!Top.kind /\ f.result = r
  <2>1. Moved(Language!Top, f, r)
    BY <1>2, FrameMoves, Zenon
  <2> QED BY <2>1 DEF Moved
<1>4. Language!Onward(calls, r) = Append(Language!Front(calls), f)
  BY <1>1 DEF Language!Onward
<1> HIDE DEF f
<1> DEFINE q == Append(Language!Front(calls), f)
<1>5. Frames(q) /\ q # <<>> /\ q[Len(q)] = f
  BY <1>1, <1>3, Replaced
<1> HIDE DEF q
<1>6. Frames(q) /\ q # <<>> /\ q[Len(q)].result = r /\ ~q[Len(q)].plan.bad
  BY <1>3, <1>5
<1> QED BY <1>4, <1>6 DEF q

\* The group is over.
LEMMA RanGood ==
  ASSUME LangGood, Language!AtLine, ~Language!Top.plan.bad, ~outcome.exited, NEW r, Language!Ran(r)
  PROVE  LangStep
<1>1. Frames(calls') /\ calls' # <<>> /\ calls'[Len(calls')].result = r /\ ~calls'[Len(calls')].plan.bad
  BY OnwardGood DEF Language!Ran
<1>2. IsOutcome(outcome') /\ outcome'.status = r /\ outcome'.exited = outcome.exited
  BY DEF Language!Ran, LangGood, IsOutcome
<1> QED BY <1>1, <1>2 DEF LangGood, Left, LangStep, LeftAlone

\* The line is over.
LEMMA ReturnsGood ==
  ASSUME LangGood, Language!AtLine, NEW r, Language!Returns(r), outcome.exited => r = outcome.status
  PROVE  LangStep
<1>1. calls # <<>> /\ Frames(calls) /\ Language!Below = Language!Front(calls)
  BY DEF Language!AtLine, LangGood, Language!Below
<1> DEFINE b == Language!Front(calls)
<1>2. /\ Frames(b) /\ Len(calls) \in Nat \ {0} /\ Len(b) = Len(calls) - 1
      /\ \A k \in 1..(Len(calls) - 1) : ~b[k].plan.bad
  BY <1>1, Popped
<1>3. /\ outcome' = [outcome EXCEPT !.status = r] /\ UNCHANGED <<entry, x, log>>
      /\ calls' = IF b = <<>> THEN <<>> ELSE Append(Language!Front(b), [Language!Last(b) EXCEPT !.at = @ + 1, !.result = r])
  BY <1>1 DEF Language!Returns
<1> HIDE DEF b
<1>4. IsOutcome(outcome') /\ outcome'.status = r /\ outcome'.exited = outcome.exited
  BY <1>3 DEF LangGood, IsOutcome
<1>5. LeftAlone
  BY <1>3 DEF LangGood, IsOutcome, LeftAlone
<1>6. Frames(calls') /\ (calls' # <<>> => calls'[Len(calls')].result = r /\ ~calls'[Len(calls')].plan.bad)
  <2>1. CASE b = <<>>
    <3>1. calls' = <<>>
      BY <1>3, <2>1
    <3>2. Frames(<<>>)
      BY <1>2, <2>1
    <3> QED BY <3>1, <3>2
  <2>2. CASE b # <<>>
    <3> DEFINE f == [Language!Last(b) EXCEPT !.at = @ + 1, !.result = r]
    <3>1. IsFrame(Language!Last(b)) /\ Len(b) \in Nat \ {0}
      BY <1>2, <2>2, Popped
    <3>2. Language!Last(b) = b[Len(b)] /\ Len(b) \in 1..(Len(calls) - 1)
      BY <1>2, <3>1 DEF Language!Last
    <3>3. ~Language!Last(b).plan.bad
      BY <1>2, <3>2
    <3>4. IsFrame(f) /\ f.plan = Language!Last(b).plan /\ f.kind = Language!Last(b).kind /\ f.result = r
      <4>1. Moved(Language!Last(b), f, r)
        BY <3>1, FrameMoves, Zenon
      <4> QED BY <4>1 DEF Moved
    <3>5. calls' = Append(Language!Front(b), f)
      BY <1>3, <2>2
    <3> HIDE DEF f
    <3>6. Frames(calls') /\ calls' # <<>> /\ calls'[Len(calls')] = f
      BY <1>2, <2>2, <3>3, <3>4, <3>5, Replaced
    <3> QED BY <3>3, <3>4, <3>6
  <2> QED BY <2>1, <2>2
<1> QED BY <1>4, <1>5, <1>6 DEF LangGood, Left, LangStep
LEMMA LineSteps ==
  ASSUME LangGood, Language!BadLine \/ Language!LineOver \/ Language!TooLong \/ Language!Skip \/ Language!Abandon
  PROVE  LangStep
<1>1. /\ Language!AtLine => calls # <<>> /\ Language!Top = calls[Len(calls)]
      /\ Left(calls, outcome)
  BY DEF Language!AtLine, Language!Top, Language!Last, LangGood
<1>2. CASE Language!BadLine
  BY <1>1, <1>2, ReturnsGood DEF Language!BadLine, Left
<1>3. CASE Language!LineOver
  <2>1. Language!AtLine /\ Language!Returns(Language!Top.result)
    BY <1>3 DEF Language!LineOver
  <2>2. outcome.exited => Language!Top.result = outcome.status
    BY <1>1, <2>1 DEF Left
  <2> QED BY <2>1, <2>2, ReturnsGood
<1>4. CASE Language!TooLong \/ Language!Abandon
  <2>1. Language!AtLine /\ ~outcome.exited /\ Language!Returns(2)
    BY <1>4 DEF Language!TooLong, Language!Abandon, Language!AtRun, Language!AtGroup
  <2> QED BY <2>1, ReturnsGood
<1>5. CASE Language!Skip
  <2>1. Language!AtLine /\ ~Language!Top.plan.bad /\ ~outcome.exited /\ calls' = Language!Onward(calls, Language!Top.result)
        /\ UNCHANGED <<entry, x, outcome, log>>
    BY <1>5 DEF Language!Skip, Language!AtGroup
  <2>2. Frames(calls')
    BY <2>1, OnwardGood
  <2> QED BY <2>1, <2>2 DEF LangGood, Left, LangStep, LeftAlone
<1> QED BY <1>2, <1>3, <1>4, <1>5

LEMMA RunSteps ==
  ASSUME LangGood, Language!Launch \/ Language!Setenv \/ Language!Exit
  PROVE  LangStep
<1>1. Language!AtLine /\ ~Language!Top.plan.bad /\ ~outcome.exited
  BY DEF Language!Launch, Language!Simple, Language!Setenv, Language!Exit, Language!At, Language!AtRun, Language!AtGroup
<1>2. CASE \E r : Language!Ran(r)
  BY <1>1, <1>2, RanGood
<1>3. CASE Language!Exit /\ ~\E r : Language!Ran(r)
  <2>1. PICK status : /\ calls' = Language!Onward(calls, status)
                      /\ outcome' = [status |-> status, exited |-> TRUE, final |-> status]
    BY <1>3 DEF Language!Exit
  <2>2. Frames(calls') /\ calls' # <<>> /\ calls'[Len(calls')].result = status /\ ~calls'[Len(calls')].plan.bad
    BY <1>1, <2>1, OnwardGood
  <2> QED BY <1>1, <2>1, <2>2 DEF LangGood, Left, LangStep, LeftAlone, IsOutcome
<1>4. Language!Exit \/ \E r : Language!Ran(r)
  BY DEF Language!Launch, Language!Setenv
<1> QED BY <1>2, <1>3, <1>4

LEMMA NewFrames ==
  /\ \A name : IsFrame(Language!NewFile(name)) /\ ~Language!NewFile(name).plan.bad
  /\ \A l : IsFrame(Language!NewLine(l)) /\ Language!NewLine(l).kind = "line"
BY DEF IsFrame, FrameFields, Language!NewFile, Language!NewLine, Language!NewParse

LEMMA SourceStep == ASSUME LangGood, Language!Source PROVE LangStep
<1>1. Language!AtLine /\ ~Language!Top.plan.bad /\ ~outcome.exited
  BY DEF Language!Source, Language!At, Language!AtRun, Language!AtGroup
<1>2. CASE \E r : Language!Ran(r)
  BY <1>1, <1>2, RanGood
<1>3. CASE calls' = Append(calls, Language!NewFile(Language!Argv[2])) /\ UNCHANGED outcome
  <2>1. calls # <<>> /\ Frames(calls) /\ Language!Top = calls[Len(calls)]
    BY <1>1 DEF Language!AtLine, LangGood, Language!Top, Language!Last
  <2>2. \A k \in 1..Len(calls) : ~calls[k].plan.bad
    BY <1>1, <2>1 DEF Frames
  <2>3. Frames(calls')
    BY <1>3, <2>1, <2>2, NewFrames, Pushed
  <2> QED BY <1>1, <1>3, <2>3 DEF LangGood, Left, LangStep, LeftAlone
<1> QED BY <1>2, <1>3 DEF Language!Source

\* Nothing more is read of a file.
LEMMA FileSteps == ASSUME LangGood, Language!ReadLine \/ Language!FileOver PROVE LangStep
<1>1. /\ calls # <<>> /\ Frames(calls) /\ Language!Top = calls[Len(calls)] /\ Language!Top = Language!Last(calls)
      /\ Language!Below = Language!Front(calls) /\ Language!Top.kind = "file"
      /\ UNCHANGED <<entry, x, log>>
  BY DEF Language!ReadLine, Language!FileOver, Language!AtFile, LangGood, Language!Top, Language!Last, Language!Below
<1> DEFINE b == Language!Front(calls)
<1>2. /\ Frames(b) /\ Len(calls) \in Nat \ {0} /\ Len(b) = Len(calls) - 1 /\ IsFrame(Language!Top)
      /\ \A k \in 1..(Len(calls) - 1) : ~b[k].plan.bad
  BY <1>1, Popped
<1>3. \A k \in 1..Len(calls) : ~calls[k].plan.bad
  BY <1>1, <1>2 DEF Frames
<1>4. CASE Language!ReadLine
  <2>1. ~outcome.exited /\ UNCHANGED outcome
    BY <1>4 DEF Language!ReadLine
  <2>2. CASE calls' = Append(b, [Language!Top EXCEPT !.at = @ + 1])
    <3> DEFINE f == [Language!Top EXCEPT !.at = @ + 1]
    <3>1. Moved(Language!Top, f, Language!Top.result)
      BY <1>2, FrameMoves, Zenon
    <3>2. IsFrame(f) /\ f.plan = Language!Top.plan /\ f.kind = Language!Top.kind
      BY <3>1 DEF Moved
    <3>3. ~Language!Top.plan.bad
      <4>1. Len(calls) \in 1..Len(calls)
        BY <1>2
      <4> QED BY <1>1, <1>3, <4>1
    <3> HIDE DEF f
    <3>4. Frames(Append(b, f))
      BY <1>1, <3>2, <3>3, Replaced
    <3>5. Frames(calls')
      BY <2>2, <3>4 DEF f
    <3> QED BY <2>1, <3>5 DEF LangGood, Left, LangStep, LeftAlone
  <2>3. ASSUME NEW l, calls' = Append(calls, Language!NewLine(l)) PROVE LangStep
    <3>1. Frames(calls')
      BY <1>1, <1>3, <2>3, NewFrames, Pushed
    <3> QED BY <2>1, <3>1 DEF LangGood, Left, LangStep, LeftAlone
  <2> QED BY <1>1, <1>4, <2>2, <2>3 DEF Language!ReadLine
<1>5. CASE Language!FileOver
  <2>1. PICK status, at, when :
           /\ outcome' = [outcome EXCEPT !.status = status]
           /\ calls' = Append(Language!Front(b), [Language!Last(b) EXCEPT !.at = at, !.when = when, !.result = status])
           /\ outcome.exited => status = Language!Top.result
    BY <1>1, <1>5 DEF Language!FileOver
  <2>2. outcome.exited => status = outcome.status
    BY <1>1, <2>1 DEF LangGood, Left
  <2>3. IsOutcome(outcome') /\ outcome'.status = status /\ LeftAlone
    BY <1>1, <2>1, <2>2 DEF LangGood, IsOutcome, LeftAlone
  <2>4. b # <<>>
    <3>1. Len(calls) # 1
      BY <1>1 DEF Frames
    <3> QED BY <1>2, <3>1
  <2> DEFINE f == [Language!Last(b) EXCEPT !.at = at, !.when = when, !.result = status]
  <2>5. IsFrame(Language!Last(b)) /\ Len(b) \in Nat \ {0}
    BY <1>2, <2>4, Popped
  <2>6. Language!Last(b) = b[Len(b)] /\ Len(b) \in 1..(Len(calls) - 1)
    BY <1>2, <2>5 DEF Language!Last
  <2>7. ~Language!Last(b).plan.bad
    BY <1>2, <2>6
  <2>8. Moved(Language!Last(b), f, status)
    BY <2>5, FrameMoves, Zenon
  <2>9. IsFrame(f) /\ f.plan = Language!Last(b).plan /\ f.kind = Language!Last(b).kind /\ f.result = status
    BY <2>8 DEF Moved
  <2>10. calls' = Append(Language!Front(b), f)
    BY <2>1
  <2> HIDE DEF f, b
  <2>11. Frames(calls') /\ calls' # <<>> /\ calls'[Len(calls')] = f
    BY <1>2, <2>4, <2>7, <2>9, <2>10, Replaced
  <2> QED BY <2>3, <2>7, <2>9, <2>11 DEF LangGood, Left, LangStep
<1> QED BY <1>4, <1>5

LEMMA LangKeeps == ASSUME LangGood, Language!LangNext PROVE LangStep
<1>1. CASE Language!LangDone
  BY <1>1 DEF Language!LangDone, Language!langVars, LangGood, Left, LangStep, LeftAlone
<1> QED BY <1>1, LineSteps, RunSteps, SourceStep, FileSteps DEF Language!LangNext, Language!Interprets

LEMMA LangStarts == ASSUME Language!LangInit \/ Language!LangIdle PROVE LangGood
<1>1. IsOutcome(outcome) /\ ~outcome.exited
  BY DEF Language!LangInit, Language!LangIdle, IsOutcome
<1>2. Frames(<<>>)
  <2>1. Stack(<<>>) /\ Len(<<>>) = 0
    <3>1. <<>> \in Seq({}) /\ Len(<<>>) = 0
      OBVIOUS
    <3> QED BY <3>1 DEF Stack
  <2> QED BY <2>1 DEF Frames
<1>3. CASE Language!LangIdle
  BY <1>1, <1>2, <1>3 DEF Language!LangIdle, LangGood, Left
<1>4. CASE Language!LangInit
  <2>1. calls = <<Language!NewLine(entry)>>
    BY <1>4 DEF Language!LangInit
  <2>2. calls = Append(<<>>, Language!NewLine(entry))
    BY <2>1
  <2>3. \A k \in 1..Len(<<>>) : ~(<<>>[k].plan.bad)
    OBVIOUS
  <2>4. Frames(calls)
    BY <1>2, <2>2, <2>3, NewFrames, Pushed
  <2> QED BY <1>1, <2>4 DEF LangGood, Left
<1> QED BY <1>3, <1>4

\* Once the session was asked to leave, by a line at whatever depth of files, nothing
\* of that line, of the files being read or of the lines that read them runs any more,
\* and the status stays the one it left with: host_state_command's exit is seen by
\* the loop of host_line_run and by that of source.
THEOREM HostsLeave == HostsSpec => LeavingIsFinal
<1>1. HostsInit => LangGood
  BY LangStarts DEF HostsInit
<1>2. LangGood /\ [HostsNext]_allVars => LangGood' /\ [LeftAlone]_(Language!langVars)
  <2> SUFFICES ASSUME LangGood, [HostsNext]_allVars PROVE LangGood' /\ [LeftAlone]_(Language!langVars)
    OBVIOUS
  <2>1. CASE Language!LangNext
    BY <2>1, LangKeeps DEF LangStep
  <2>2. CASE UNCHANGED langState
    BY <2>2 DEF langState, LangGood, Left, Language!langVars
  <2> QED BY <2>1, <2>2 DEF HostsNext, allVars
<1>3. LangGood /\ [HostsNext]_allVars => [LeftAlone]_(Language!langVars)
  BY <1>2
<1> QED BY <1>1, <1>2, <1>3, PTL DEF HostsSpec, LeavingIsFinal, Language!ExitIsFinal, LeftAlone
=============================================================================
