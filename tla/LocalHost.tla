----------------------------- MODULE LocalHost -----------------------------
(* main of src/host/posix.c: one session on the standard streams or a serial *)
(* line, from its options to the terminal it gives back.  Lines are          *)
(* sequences of characters of which the first names the command; what a      *)
(* command does is left out, but for exit and for a program that shares the  *)
(* host's standard input.                                                    *)
EXTENDS Naturals, Sequences, FiniteSets, SequencesExt

CONSTANTS
  Options,   \* the sets of options the host is started with
  Inputs,    \* what its standard input may hold: sequences of characters, "CR" and "LF"
  ReadAhead, \* how many the loop reads at a time when it starts no programs
  Readers,   \* the commands that are programs
  Bye,       \* the command that ends the session
  Saved,     \* the history file
  Kept       \* how many entries a session keeps

VARIABLES
  host,    \* [pc, options, stopping, failed (its output), result]
  term,    \* the modes of the terminal: "host" or "raw"
  input,   \* [all, at (how many were read, by the host or a program), held (of them still in
           \* the loop's buffer), eof (the host met the end)]
  sess,    \* [draft, lf (the next LF belongs to a CR), exited, status]
  ran,     \* the lines that were executed, with their results
  seen,    \* what was fed to the session
  handed,  \* the places in the input where programs started
  hist     \* [ring, file, read (the lines of the file that were added to the ring)]
hostVars == <<host, term, input, sess, ran, seen, handed, hist>>

HostAt(pc) == host.pc = pc
HostTo(pc) == host' = [host EXCEPT !.pc = pc]
Returns(n) == host' = [host EXCEPT !.pc = "done", !.result = n]
Has(option) == option \in host.options
Interactive == \/ Has("terminal") /\ ~Has("batch") /\ ~Has("command")
               \/ Has("interactive") \/ Has("serial")
Prefetch == IF Has("exec") /\ ~Has("serial") THEN 1 ELSE ReadAhead
Launches == Has("exec") /\ ~Has("serial") /\ ~Has("device")

HostStart(o, bytes) ==
  /\ host = [pc |-> "start", options |-> o, stopping |-> FALSE, failed |-> FALSE, result |-> 0]
  /\ term = "host" /\ input = [all |-> bytes, at |-> 0, held |-> 0, eof |-> FALSE]
  /\ sess = [draft |-> <<>>, lf |-> FALSE, exited |-> FALSE, status |-> 0]
  /\ ran = <<>> /\ seen = <<>> /\ handed = {} /\ hist = [ring |-> <<>>, file |-> Saved, read |-> 0]
HostInit == \E o \in Options, bytes \in Inputs : HostStart(o, bytes)
HostIdle == HostStart({}, <<>>)

----------------------------------------------------------------------------
\* Up to the loop.
Start ==
  /\ HostAt("start") /\ UNCHANGED <<term, input, sess, ran, seen, handed, hist>>
  /\ IF Has("env") /\ host.options \cap {"listen", "serial", "board", "device", "batch", "command"} # {}
     THEN Returns(2)
     ELSE \/ Has("listen") /\ \E n \in 0..1 : Returns(n)       \* the TCP server
          \/ ~Has("listen") /\ \E n \in 1..2 : Returns(n)      \* no serial line, storage or registry
          \/ ~Has("listen") /\ HostTo(IF Has("command") THEN "command" ELSE "load")
\* The command of the options; a result other than zero wins over the session's.
GivenCommand ==
  /\ HostAt("command") /\ UNCHANGED <<term, input, seen, handed, hist>>
  /\ \E status \in {0, 3} : /\ ran' = <<[line |-> <<"c">>, status |-> status]>>
                            /\ sess' = [sess EXCEPT !.status = status] /\ Returns(status)
Added(ring, line) ==
  IF ring # <<>> /\ Last(ring) = line THEN ring
  ELSE LET all == Append(ring, line) IN IF Len(all) > Kept THEN Tail(all) ELSE all
\* One line of the file after the other.
LoadHistory ==
  /\ HostAt("load") /\ UNCHANGED <<term, input, sess, ran, seen, handed>>
  /\ IF Has("history") /\ hist.read < Len(hist.file)
     THEN /\ hist' = [hist EXCEPT !.ring = Added(@, hist.file[hist.read + 1]), !.read = @ + 1]
          /\ UNCHANGED host
     ELSE HostTo("modes") /\ UNCHANGED hist
Modes ==
  /\ HostAt("modes") /\ UNCHANGED <<input, sess, ran, seen, handed, hist>>
  /\ IF ~Interactive THEN HostTo("loop") /\ UNCHANGED term
     ELSE \/ Has("odd speed") /\ Has("serial") /\ Returns(2) /\ UNCHANGED term
          \/ ~Has("odd speed") /\ (Has("terminal") \/ Has("serial")) /\ HostTo("loop") /\ term' = "raw"
          \/ HostTo("loop") /\ UNCHANGED term       \* no terminal, or one that keeps its modes

----------------------------------------------------------------------------
\* The loop: read, and feed what was read; the output may fail whenever it is flushed.
\* Mutant: the loop does not look at what the signal's handler has set.
EndsUnasked == sess.exited \/ host.failed
Ends == host.stopping \/ sess.exited \/ host.failed
Read ==
  /\ HostAt("loop") /\ ~Ends /\ UNCHANGED <<term, sess, ran, seen, handed, hist>>
  /\ \/ \E n \in 1..Prefetch : /\ input.at + n <= Len(input.all)
                               /\ input' = [input EXCEPT !.at = @ + n, !.held = n] /\ HostTo("feed")
     \/ /\ input.at = Len(input.all) /\ ~Has("serial")
        /\ input' = [input EXCEPT !.eof = TRUE] /\ HostTo("finish")
\* A program reads as much of what is left as it likes before it ends.
Execute(line, lf, rest) ==
  \E status \in {0, 3} :
    /\ ran' = Append(ran, [line |-> line, status |-> status])
    /\ sess' = [draft |-> <<>>, lf |-> lf, status |-> status, exited |-> sess.exited \/ line[1] = Bye]
    /\ IF Launches /\ line[1] \in Readers
       THEN /\ handed' = handed \cup {rest.at}
            /\ \E n \in rest.at..Len(rest.all) : input' = [rest EXCEPT !.at = n]
       ELSE input' = rest /\ UNCHANGED handed
\* Mutant: the host takes a CR for the end of the line whatever it starts.
DropsAny(ch) == FALSE
\* Without a terminal a CR waits for its LF, which a program would otherwise be given.
Drops(ch) == Prefetch = 1 /\ ~Interactive /\ ch = "CR"
Feed ==
  /\ HostAt("feed") /\ UNCHANGED term
  /\ LET ch == input.all[input.at - input.held + 1]
         rest == [input EXCEPT !.held = @ - 1] IN
     IF input.held = 0 \/ sess.exited
     THEN /\ \E failed \in BOOLEAN : host' = [host EXCEPT !.pc = "loop", !.failed = failed]
          /\ input' = [input EXCEPT !.held = 0] /\ UNCHANGED <<sess, ran, seen, handed, hist>>
     ELSE /\ UNCHANGED host
          /\ IF Drops(ch) THEN input' = rest /\ UNCHANGED <<sess, ran, seen, handed, hist>>
             ELSE /\ seen' = Append(seen, ch)
                  /\ IF (ch = "CR" \/ (ch = "LF" /\ ~sess.lf)) /\ sess.draft # <<>>
                     THEN /\ Execute(sess.draft, ch = "CR", rest)
                          /\ hist' = IF Interactive THEN [hist EXCEPT !.ring = Added(@, sess.draft)] ELSE hist
                     ELSE /\ input' = rest /\ UNCHANGED <<ran, handed, hist>>
                          /\ sess' = IF ch \in {"CR", "LF"} THEN [sess EXCEPT !.lf = ch = "CR"]
                                     ELSE [sess EXCEPT !.lf = FALSE, !.draft = Append(@, ch)]
Signal == /\ host.pc \in {"load", "modes", "loop", "feed"} /\ ~host.stopping
          /\ host' = [host EXCEPT !.stopping = TRUE]
          /\ UNCHANGED <<term, input, sess, ran, seen, handed, hist>>

----------------------------------------------------------------------------
\* The way out.
Leave == /\ HostAt("loop") /\ Ends /\ HostTo("finish") /\ UNCHANGED <<term, input, sess, ran, seen, handed, hist>>
\* Mutant: what was not ended by a newline is forgotten.
FinishQuiet == /\ HostAt("finish") /\ HostTo("save") /\ UNCHANGED <<term, input, sess, ran, seen, handed, hist>>
Finish ==
  /\ HostAt("finish") /\ HostTo("save") /\ UNCHANGED <<term, seen, hist>>
  /\ IF sess.draft = <<>> THEN UNCHANGED <<input, sess, ran, handed>>
     ELSE Execute(sess.draft, sess.lf, input)
\* Mutant: a host whose output failed leaves at once.
SaveUnless == /\ HostAt("save") /\ (IF host.failed THEN Returns(1) ELSE HostTo("restore"))
              /\ UNCHANGED <<term, input, sess, ran, seen, handed, hist>>
Save == /\ HostAt("save") /\ HostTo("restore") /\ UNCHANGED <<term, input, sess, ran, seen, handed>>
        /\ hist' = IF Has("history") THEN [hist EXCEPT !.file = hist.ring] ELSE hist
GiveBack == /\ HostAt("restore") /\ term' = "host" /\ Returns(IF host.failed THEN 1 ELSE sess.status)
            /\ UNCHANGED <<input, sess, ran, seen, handed, hist>>

HostRuns == \/ Start \/ GivenCommand \/ LoadHistory \/ Modes \/ Read \/ Feed \/ Leave \/ Finish \/ Save \/ GiveBack
HostDone == HostAt("done") /\ UNCHANGED hostVars
HostNext == HostRuns \/ Signal \/ HostDone
HostSpec == HostInit /\ [][HostNext]_hostVars /\ WF_hostVars(HostRuns)

----------------------------------------------------------------------------
HostTypeOK ==
  /\ host.pc \in {"start", "command", "load", "modes", "loop", "feed", "finish", "save", "restore", "done"}
  /\ host.stopping \in BOOLEAN /\ host.failed \in BOOLEAN /\ host.result \in 0..3
  /\ term \in {"host", "raw"} /\ input.at \in 0..Len(input.all) /\ input.held \in 0..Prefetch
  /\ Len(hist.ring) <= Kept /\ handed \subseteq 0..Len(input.all)

\* The lines of a text: each ends at the first CR or LF after a character that is
\* neither, and starts after the one before.
Breaks(text) == {k \in 1..Len(text) : text[k] \in {"CR", "LF"}}
LineEnds(text) == {k \in Breaks(text) : k > 1 /\ (k - 1) \notin Breaks(text)}
StartsAt(text, from, k) == (from = 1 \/ (from - 1) \in Breaks(text)) /\ \A j \in from..(k - 1) : j \notin Breaks(text)
\* The line that ends at k is the first, the second... of the text.
Place(text, k) == Cardinality({d \in LineEnds(text) : d <= k})
HasRun(text) ==
  /\ Len(ran) = Cardinality(LineEnds(text))
  /\ \A k \in LineEnds(text) : \A from \in 1..(k - 1) :
       StartsAt(text, from, k) => ran[Place(text, k)].line = SubSeq(text, from, k - 1)
\* Every line that was fed is executed once, in order, and the line that the end of
\* the input leaves open too, however the loop ends; the last of them decides the
\* host's result, unless its output failed.
RunsWhatWasFed ==
  /\ host.pc \in {"loop", "feed", "finish"} => HasRun(seen)
  /\ host.pc \in {"save", "restore", "done"} /\ ~Has("command") => HasRun(Append(seen, "LF"))
  /\ HostAt("done") /\ ~host.failed /\ ran # <<>> => host.result = Last(ran).status
\* A program started by a line of a batch reads what follows that line: the host
\* has not read past it, and does not leave it the LF of a CR LF.
ProgramsGetTheRest ==
  (~Interactive /\ ~host.stopping /\ ~host.failed) =>
    \A k \in handed \ {Len(input.all)} : input.all[k] = "LF"
\* However the host ends, the terminal has the modes it had, and the entries the
\* history file held are still there as far as there is room for them.
GivesBack ==
  HostAt("done") =>
    /\ term = "host"
    /\ Len(hist.file) < Kept => Range(Saved) \subseteq Range(hist.file)
=============================================================================
