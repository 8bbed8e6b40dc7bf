---------------------------- MODULE HostProcess ----------------------------
(* ps_host_process of src/host/process_posix.c: one program in the           *)
(* foreground, on the host's own terminal or behind a pseudo terminal whose  *)
(* two directions a single-threaded pump relays.  Bytes are counted, what    *)
(* they say is left out, and so is the copying of the window size.           *)
EXTENDS Naturals

CONSTANTS
  Typed,           \* how many bytes reach the host's standard input in all
  Chunk,           \* how many the pump moves at a time
  InRoom, OutRoom, \* what the kernel holds for the program, and of it
  Extra,           \* what the program may write of its own accord
  MayLeave         \* whether it may leave its terminal to a child of its own

VARIABLES
  pump,    \* the parent: [pc, ready, pending, open (of its input), exited, broken (a stream
           \* failed), result], for the call [tty, pty]
  modes,   \* [term, signals]: the modes of the host's terminal, what SIGINT does to the host
  program, \* [state, due (bytes it has still to write), extra, made, held (it left the
           \* terminal to a silent child of its own)]
  wire     \* [left (still to be typed), in, end (the end of input follows), out, shown]
relayVars == <<pump, modes, program, wire>>

\* pc names the step the parent is at: poll, show, read, feed and look are the pump's.
At(pc) == pump.pc = pc
To(pc) == pump' = [pump EXCEPT !.pc = pc]
Least(a, b) == IF a < b THEN a ELSE b
Running == program.state = "running"
\* Nobody has the program's side of the pseudo terminal open.
HungUp == ~Running /\ ~program.held

Calls == [tty : BOOLEAN, pty : BOOLEAN]
PumpIdle == [pc |-> "start", tty |-> FALSE, pty |-> FALSE, ready |-> {}, pending |-> 0,
             open |-> TRUE, exited |-> FALSE, broken |-> FALSE, result |-> 0]
RelayIdle ==
  /\ pump = PumpIdle
  /\ modes = [term |-> "host", signals |-> "host"]
  /\ program = [state |-> "none", due |-> 0, extra |-> Extra, made |-> 0, held |-> FALSE]
  /\ wire = [left |-> Typed, in |-> 0, end |-> FALSE, out |-> 0, shown |-> 0]
RelayInit ==
  /\ \E call \in Calls : pump = [PumpIdle EXCEPT !.tty = call.tty, !.pty = call.pty]
  /\ modes = [term |-> "host", signals |-> "host"]
  /\ program = [state |-> "none", due |-> 0, extra |-> Extra, made |-> 0, held |-> FALSE]
  /\ wire = [left |-> Typed, in |-> 0, end |-> FALSE, out |-> 0, shown |-> 0]

----------------------------------------------------------------------------
\* The parent, up to the fork.
NoTerminal == At("start") /\ pump.pty
              /\ pump' = [pump EXCEPT !.pc = "done", !.result = 125] /\ UNCHANGED <<modes, program, wire>>
Prepare ==
  /\ At("start") /\ To("ignore") /\ UNCHANGED <<program, wire>>
  /\ modes' = IF ~pump.pty /\ pump.tty THEN [modes EXCEPT !.term = "cooked"] ELSE modes
IgnoreSignals == At("ignore") /\ To("fork") /\ modes' = [modes EXCEPT !.signals = "ignored"]
                 /\ UNCHANGED <<program, wire>>
Fork ==
  /\ At("fork") /\ UNCHANGED <<modes, wire>>
  /\ \/ /\ program' = [program EXCEPT !.state = "running"]
        /\ To(IF pump.pty THEN "raw" ELSE "reap")
     \/ /\ pump' = [pump EXCEPT !.pc = "modes", !.result = 126] /\ UNCHANGED program
Raw == At("raw") /\ To("poll") /\ UNCHANGED <<program, wire>>
       /\ modes' = IF pump.tty THEN [modes EXCEPT !.term = "relay"] ELSE modes

----------------------------------------------------------------------------
\* The pump: poll, then what was ready, then a look at the program.
Poll ==
  /\ At("poll") /\ UNCHANGED <<modes, program, wire>>
  /\ pump' = [pump EXCEPT !.pc = "show",
                !.ready = {d \in {"out", "in"} : IF d = "out" THEN wire.out > 0 \/ HungUp 
                                                     ELSE pump.open /\ (wire.left > 0 \/ ~pump.tty)}]
Show ==
  /\ At("show") /\ UNCHANGED <<modes, program>>
  /\ LET n == Least(Chunk, wire.out) IN
     IF "out" \notin pump.ready THEN To("read") /\ UNCHANGED wire
     ELSE /\ wire' = [wire EXCEPT !.out = @ - n, !.shown = @ + n]
          /\ \/ To(IF n = 0 THEN "close" ELSE "read")
             \/ n > 0 /\ pump' = [pump EXCEPT !.pc = "close", !.broken = TRUE]
ReadInput ==
  /\ At("read") /\ UNCHANGED <<modes, program>>
  /\ LET k == Least(Chunk, wire.left) IN
     IF "in" \notin pump.ready THEN To("look") /\ UNCHANGED wire
     ELSE IF k > 0 THEN /\ wire' = [wire EXCEPT !.left = @ - k]
                        /\ pump' = [pump EXCEPT !.pc = "feed", !.pending = k]
     ELSE /\ pump' = [pump EXCEPT !.pc = "feed", !.pending = 1, !.open = FALSE] /\ UNCHANGED wire
\* send_all: it blocks while the kernel has no room, and fails once nobody listens.
Feed ==
  /\ At("feed") /\ UNCHANGED <<modes, program>>
  /\ \/ pump.pending = 0 /\ To("look") /\ UNCHANGED wire
     \/ /\ pump.pending > 0 /\ ~HungUp
        /\ wire.in < InRoom
        /\ pump' = [pump EXCEPT !.pending = @ - 1]
        /\ wire' = IF pump.open THEN [wire EXCEPT !.in = @ + 1] ELSE [wire EXCEPT !.end = TRUE]
     \/ pump.pending > 0 /\ HungUp /\ UNCHANGED wire
        /\ pump' = [pump EXCEPT !.pc = IF pump.open THEN "close" ELSE "look", !.pending = 0]
\* Mutant: only the end of the stream ends the relay.
LookForEnd == At("look") /\ To("poll") /\ UNCHANGED <<modes, wire, program>>
Look ==
  /\ At("look") /\ UNCHANGED <<modes, wire>>
  /\ LET exited == pump.exited \/ program.state = "exited" IN
     /\ program' = IF exited THEN [program EXCEPT !.state = "reaped"] ELSE program
     /\ pump' = [pump EXCEPT !.exited = exited,
                             !.pc = IF exited /\ pump.ready = {} THEN "close" ELSE "poll"]

----------------------------------------------------------------------------
\* The parent, once the relay is over.  Closing the master hangs up on the program.
Close == At("close") /\ To(IF pump.exited THEN "modes" ELSE "reap")
         /\ program' = [program EXCEPT !.due = 0, !.extra = 0]
         /\ wire' = [wire EXCEPT !.in = 0] /\ UNCHANGED modes
Reap == At("reap") /\ program.state = "exited" /\ To("modes")
        /\ program' = [program EXCEPT !.state = "reaped"] /\ UNCHANGED <<modes, wire>>
\* Mutant: the signals before the modes.
RestoreSignalsFirst == At("modes") /\ To("signals") /\ modes' = [modes EXCEPT !.signals = "host"]
                       /\ UNCHANGED <<program, wire>>
RestoreModes == At("modes") /\ To("signals") /\ modes' = [modes EXCEPT !.term = "host"]
                /\ UNCHANGED <<program, wire>>
RestoreSignals == At("signals") /\ To("done") /\ modes' = [term |-> "host", signals |-> "host"]
                  /\ UNCHANGED <<program, wire>>

Parent == \/ NoTerminal \/ Prepare \/ IgnoreSignals \/ Fork \/ Raw \/ Poll \/ Show \/ ReadInput
          \/ Feed \/ Look \/ Close \/ Reap \/ RestoreModes \/ RestoreSignals

----------------------------------------------------------------------------
\* The program: it answers every byte with one, writes a little of its own and
\* ends when it likes.  Without a pseudo terminal it does so without the parent.
ProgramReads == /\ Running /\ pump.pty /\ program.due = 0 /\ wire.in > 0
                /\ program' = [program EXCEPT !.due = 1]
                /\ wire' = [wire EXCEPT !.in = @ - 1] /\ UNCHANGED <<pump, modes>>
ProgramStarts == /\ Running /\ pump.pty /\ program.due = 0 /\ program.extra > 0
                 /\ program' = [program EXCEPT !.due = 1, !.extra = @ - 1] /\ UNCHANGED <<pump, modes, wire>>
ProgramWrites == /\ Running /\ program.due > 0 /\ wire.out < OutRoom
                 /\ program' = [program EXCEPT !.due = @ - 1, !.made = @ + 1]
                 /\ wire' = [wire EXCEPT !.out = @ + 1] /\ UNCHANGED <<pump, modes>>
ProgramEnds == /\ Running /\ program.due = 0 /\ UNCHANGED <<pump, modes, wire>>
               /\ \E held \in MayLeave : program' = [program EXCEPT !.state = "exited", !.held = held]
Program == ProgramReads \/ ProgramStarts \/ ProgramWrites \/ ProgramEnds

RelayDone == At("done") /\ UNCHANGED relayVars
RelayNext == Parent \/ Program \/ RelayDone
\* The kernel runs both processes.
RelaySpec == RelayInit /\ [][RelayNext]_relayVars /\ WF_relayVars(Parent) /\ WF_relayVars(Program)

----------------------------------------------------------------------------
RelayTypeOK ==
  /\ pump \in [pc : {"start", "ignore", "fork", "raw", "poll", "show", "read", "feed", "look", "close",
                     "reap", "modes", "signals", "done"}, tty : BOOLEAN, pty : BOOLEAN,
               ready : SUBSET {"in", "out"}, pending : 0..Chunk, open : BOOLEAN, exited : BOOLEAN,
               broken : BOOLEAN, result : {0, 125, 126}]
  /\ modes \in [term : {"host", "cooked", "relay"}, signals : {"host", "ignored"}]
  /\ program \in [state : {"none", "running", "exited", "reaped"}, due : 0..1, extra : 0..Extra,
                  made : 0..(Typed + Extra), held : BOOLEAN]
  /\ wire \in [left : 0..Typed, in : 0..InRoom, end : BOOLEAN, out : 0..OutRoom, shown : 0..(Typed + Extra)]

\* A returned call leaves nothing behind: no child unreaped, the terminal's modes
\* and the handlers as they were.
RelayRestores ==
  At("done") => /\ modes = [term |-> "host", signals |-> "host"]
                /\ program.state \in {"none", "reaped"}
\* While the terminal turns a key into an interrupt, and a program may be there
\* to be interrupted, the interrupt is not for the host.
InterruptsAreTheirs == (modes.term = "cooked" /\ pump.pc # "ignore") => modes.signals = "ignored"
=============================================================================
