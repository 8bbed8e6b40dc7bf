------------------------------- MODULE MCHost -------------------------------
(* The host's parts, one of them in each behaviour: a program behind the     *)
(* relay, a pipeline, the TCP server, a local session and a command line.    *)
EXTENDS Naturals, Sequences, FiniteSets

CONSTANTS
  Parts,
  Typed, Chunk, InRoom, OutRoom, Extra, MayLeave,
  Stages, Programs, Redirects, PipeRoom,
  Conns, Slots, Queue, Wire, Keys, Reply,
  Options, Inputs, ReadAhead, Readers, Bye, Saved, Kept,
  Entries, Scripts, Commands, Depth, Streams, Others

VARIABLES
  part,
  pump, modes, program, wire,
  plan, line, stage, pipe, tty,
  channel, server, session, client,
  host, term, input, sess, ran, seen, handed, hist,
  calls, entry, x, outcome, log

Relay == INSTANCE HostProcess
Pipeline == INSTANCE HostPipeline
Telnetd == INSTANCE TelnetServer
Local == INSTANCE LocalHost
Language == INSTANCE HostLanguage

\* A program that cannot be started, one that writes two bytes, one that copies its input.
MCPrograms == {[missing |-> TRUE, makes |-> 0, reads |-> FALSE],
               [missing |-> FALSE, makes |-> 2, reads |-> FALSE],
               [missing |-> FALSE, makes |-> 0, reads |-> TRUE]}

\* Two clients ask to leave, and may stop reading before; one never types.
MCKeys == <<1, 1, 0>>

MCOptions == {{"terminal", "history", "exec"}, {"exec", "history"}, {"batch", "terminal", "exec"}, {},
              {"serial"}, {"serial", "odd speed"}, {"interactive", "exec"}, {"exec", "device"}, {"command"},
              {"env", "board"}, {"env", "terminal"}, {"listen"}}
\* p is a program that may read what follows it, x asks to leave.
MCInputs == {<<"p", "CR", "LF", "c">>, <<"p", "LF", "c", "p">>, <<"c", "CR", "c", "LF", "p">>, <<"x", "LF", "c">>,
             <<"c", "c", "CR", "LF", "LF", "c", "CR">>, <<"c", "LF", "x">>}
MCSaved == <<<<"a">>, <<"c">>>>

\* Every line of up to three words, and some that set, read files, leave and fail.
MCWords == {"t", "f", ";", "&&", "||", "|", ">", "#", "&"}
MCEntries ==
  UNION {[1..n -> MCWords] : n \in 0..3} \cup
  { <<"setenv", "new", ";", "echo", "use">>, <<"setenv", "long", ";", "echo", "use">>, <<"setenv">>,
    <<"t", "||", "setenv", "new", ";", "echo", "use">>, <<"setenv", "new", "a", ";", "source", "s", ";", "echo", "use">>,
    <<"f", "||", "source", "a", "&&", "t">>, <<"source", "a", ">", "p">>, <<"source", "b", ";", "t">>, <<"source">>,
    <<"source", "none">>, <<"source", "e", ";", "t">>, <<"run">>, <<"run", "echo", "|", "echo">>, <<"none", "|", "t">>,
    <<"exit", "3", "||", "t">>, <<"exit", "x", ";", "f", ";", "exit">>, <<"echo", "a", "|", "exit">>,
    <<"t", ">", "no">>, <<"t", ">", "#">>, <<"t", "<", "p", "<", "p">>, <<"t", "quote">>,
    <<"f", "||", "t", "||", "f", "&&", "t">>, <<"t", ";", "t", ";", "t", ";", "t">>, <<"f", "&&", "t", "||", "f">> }
MCScripts ==
  [n \in {"a", "b", "e", "s"} |-> CASE n = "a" -> << <<"source", "a">>, <<>>, <<"t", "|">>, <<"source", "a">> >>
                               [] n = "b" -> << <<"f">>, <<"too long">>, <<"t">> >>
                               [] n = "e" -> << <<"f">>, <<"exit">>, <<"t">> >>
                               [] n = "s" -> << <<"echo", "use">>, <<"setenv", "new">> >>]

\* What the modules assume of the constants.
ASSUME RelayAssumption ==
  /\ Typed \in Nat /\ Chunk \in Nat \ {0} /\ InRoom \in Nat /\ OutRoom \in Nat /\ Extra \in Nat
  /\ MayLeave \subseteq BOOLEAN
ASSUME PipelineAssumption ==
  /\ Stages \in Nat \ {0} /\ PipeRoom \in Nat
  /\ \A p \in Programs : p \in [missing : BOOLEAN, makes : Nat, reads : BOOLEAN]
ASSUME ServerAssumption ==
  /\ Conns \in Nat /\ Slots \in Nat \ {0} /\ Queue \in Nat \ {0} /\ Wire \in Nat /\ Reply \in Nat
  /\ Keys \in [1..Conns -> Nat]
ASSUME LocalAssumption ==
  /\ ReadAhead \in Nat \ {0} /\ Kept \in Nat \ {0} /\ Saved \in Seq(Seq(STRING))
  /\ \A text \in Inputs : text \in Seq(STRING)

relayState == <<pump, modes, program, wire>>
pipeState == <<plan, line, stage, pipe, tty>>
serverState == <<channel, server, session, client>>
localState == <<host, term, input, sess, ran, seen, handed, hist>>
langState == <<calls, entry, x, outcome, log>>
allVars == <<part, relayState, pipeState, serverState, localState, langState>>

HostsInit ==
  /\ part \in Parts
  /\ IF part = "relay" THEN Relay!RelayInit ELSE Relay!RelayIdle
  /\ IF part = "pipeline" THEN Pipeline!PipelineInit ELSE Pipeline!PipelineIdle
  /\ Telnetd!ServerInit
  /\ IF part = "local" THEN Local!HostInit ELSE Local!HostIdle
  /\ IF part = "language" THEN Language!LangInit ELSE Language!LangIdle
HostsNext ==
  /\ UNCHANGED part
  /\ \/ part = "relay" /\ Relay!RelayNext /\ UNCHANGED <<pipeState, serverState, localState, langState>>
     \/ part = "pipeline" /\ Pipeline!PipelineNext /\ UNCHANGED <<relayState, serverState, localState, langState>>
     \/ part = "server" /\ Telnetd!ServerNext /\ UNCHANGED <<relayState, pipeState, localState, langState>>
     \/ part = "local" /\ Local!HostNext /\ UNCHANGED <<relayState, pipeState, serverState, langState>>
     \/ part = "language" /\ Language!LangNext /\ UNCHANGED <<relayState, pipeState, serverState, localState>>
\* The parents, and the programs that they wait for: the kernel runs all of them.
Hosts ==
  \/ part = "relay" /\ Relay!Parent /\ UNCHANGED <<part, pipeState, serverState, localState, langState>>
  \/ part = "pipeline" /\ Pipeline!Shell /\ UNCHANGED <<part, relayState, serverState, localState, langState>>
  \/ part = "server" /\ Telnetd!Server /\ UNCHANGED <<part, relayState, pipeState, localState, langState>>
  \/ part = "local" /\ Local!HostRuns /\ UNCHANGED <<part, relayState, pipeState, serverState, langState>>
  \/ part = "language" /\ Language!Interprets /\ UNCHANGED <<part, relayState, pipeState, serverState, localState>>
Children ==
  \/ part = "relay" /\ Relay!Program /\ UNCHANGED <<part, pipeState, serverState, localState, langState>>
  \/ part = "pipeline" /\ Pipeline!Child /\ UNCHANGED <<part, relayState, serverState, localState, langState>>
HostsSpec == HostsInit /\ [][HostsNext]_allVars /\ WF_allVars(Hosts) /\ WF_allVars(Children)

----------------------------------------------------------------------------
\* The types of the five.
HostsTypeOK == Relay!RelayTypeOK /\ Pipeline!PipelineTypeOK /\ Telnetd!ServerTypeOK /\ Local!HostTypeOK /\ Language!LangTypeOK

\* A host that returns, from a program, from a pipeline or for good, leaves
\* nothing behind: no child unreaped, no file or pipe open, the terminal and the
\* handlers as they were; and meanwhile a key that interrupts is its programs'.
LeavesNothingBehind ==
  /\ part = "relay" => Relay!RelayRestores /\ Relay!InterruptsAreTheirs
  /\ part = "pipeline" => Pipeline!PipelineRestores /\ Pipeline!StagesAreInterrupted
  /\ part = "local" => Local!GivesBack

\* Nothing blocks for good.  A program behind the relay returns, whoever stopped
\* reading and whatever it left behind on its terminal; a pipeline of programs that
\* end when their input does returns, for each reader sees the end of its input and
\* no stage waits for an end another process still holds; a signal ends the local
\* host, whatever it is doing; a line ends, whatever its files read; and the server
\* comes to the bytes a client has sent.
Busy == part \in {"relay", "pipeline", "language"} \/ (part = "local" /\ host.stopping)
Over == CASE part = "relay" -> Relay!At("done")
          [] part = "pipeline" -> Pipeline!LineAt("done")
          [] part = "local" -> Local!HostAt("done")
          [] part = "language" -> calls = <<>>
          [] OTHER -> FALSE
EverythingReturns == (Busy ~> Over) /\ Telnetd!InputIsServed

\* Bytes go where they belong: a client has one slot, and what it is sent is the
\* beginning of what its own session wrote; a local session executes the lines it
\* is fed, each once; a program of a batch gets exactly what follows its line.
BytesAreTheirs == Telnetd!EachItsOwn /\ Telnetd!OneSlotEach /\ Local!RunsWhatWasFed /\ Local!ProgramsGetTheRest

\* A line with an error runs nothing, a line without one has the value of its
\* operators from left to right, and words see what the last setenv before them set.
LanguageHolds == Language!ErrorsRunNothing /\ Language!LeftToRight /\ Language!SeesWhatWasSet

\* Nothing runs once the session was asked to leave, in any line or file still open.
LeavingIsFinal == Language!ExitIsFinal
=============================================================================
